---- MODULE Spec2Model ----
(***************************************************************************)
(* Model of whale_watcher_agent.py: the dollar-based TradeJournal replay   *)
(* (get_positions and its callers) and the PositionAnalyzer signal         *)
(* cascade (generate_signal, calculate_risk_score).                        *)
(*                                                                         *)
(* Dollar amounts are whole dollars, percentages are whole percent, dates  *)
(* are day numbers.  Python's None is the value None below; a float NaN is *)
(* the value NaN, for which every comparison is false.                     *)
(***************************************************************************)
EXTENDS Integers, Sequences, FiniteSets, TLC

\* ------------------------------------------------------------------------
\* Bounds of the model
\* ------------------------------------------------------------------------
MaxTrades == 3

\* ------------------------------------------------------------------------
\* Python values
\* ------------------------------------------------------------------------
None == -9999
NaN == -8888

\* ------------------------------------------------------------------------
\* Configuration (module-level settings of whale_watcher_agent.py)
\* ------------------------------------------------------------------------
PROFIT_TIER_1 == 15
PROFIT_TIER_2 == 25
PROFIT_TIER_3 == 40
PROFIT_TIER_4 == 60
STOP_LOSS_WARN == -5
STOP_LOSS_SOFT == -8
STOP_LOSS_HARD == -15
TRAILING_STOP_PCT == 12
ADD_ON_DIP_RSI == 35
ADD_ON_DIP_DRAWDOWN == -10
ADD_ON_BREAKOUT_PCT == 5
SETTLING_PERIOD_DAYS == 3
MIN_HOLD_FOR_ADD == 7
RSI_OVERSOLD == 30
RSI_OVERBOUGHT == 70
RSI_EXTREME_OVERBOUGHT == 80
\* VOLUME_SPIKE_RATIO = 2.5, in tenths
VOLUME_SPIKE_RATIO_X10 == 25
CRYPTO_SYMBOLS == {"BTC", "ETH", "SOL", "FET", "RNDR", "DOGE", "PEPE"}

\* ------------------------------------------------------------------------
\* Tickers.  str.upper() and str.replace("-USD", "") on the tickers used.
\* replace is case-sensitive: it leaves "btc-usd" alone.
\* ------------------------------------------------------------------------
Upper(s) ==
    CASE s = "btc-usd" -> "BTC-USD"
      [] s = "aapl" -> "AAPL"
      [] s = "sell" -> "SELL"
      [] OTHER -> s

ReplaceUsd(s) ==
    CASE s = "BTC-USD" -> "BTC"
      [] OTHER -> s

\* ticker.upper().replace("-USD", "")
CleanTicker(s) == ReplaceUsd(Upper(s))

\* tickers as add_trade stores them in the journal
JournalTickers == {"AAPL", "BTC"}
\* tickers as callers pass them to get_position / is_owned
QueryTickers == {"AAPL", "aapl", "BTC", "BTC-USD", "btc-usd"}
\* tickers as callers pass them to add_trade
AddTickers == {"aapl", "BTC-USD"}

Actions == {"BUY", "SELL"}
\* what callers pass as action; add_trade stores action.upper()
ActionInputs == {"BUY", "sell"}
Amounts == {0, 1, 2}
Dates == {1, 2}

\* a trade as add_trade writes it (id, price_at_purchase and notes are never
\* read by the replay)
Trade(ticker, action, amount_invested, date) ==
    [ticker |-> ticker, action |-> action,
     amount_invested |-> amount_invested, date |-> date]

\* the trades of the model: every amount for AAPL, and BTC trades of 1 dollar
\* that interleave with them
Trades ==
    [ticker : {"AAPL"}, action : Actions, amount_invested : Amounts, date : Dates]
    \cup [ticker : {"BTC"}, action : Actions, amount_invested : {1}, date : Dates]

VARIABLES
    trades,        \* TradeJournal.trades
    journal_file,  \* the "trades" list of docs/data/trade_journal.json
    pc,            \* "replay": get_positions is at its loop (at i = 0 it has
                   \* not started); "returned": it has returned active
    i,             \* number of trades get_positions has replayed
    positions,     \* get_positions' local dict, ticker -> position
    active,        \* the dict get_positions returned
    analyzer,      \* the fields of a PositionAnalyzer, None before one exists
    weekday,       \* datetime.now(timezone.utc).weekday() read by generate_signal
    signal_data,   \* the dict generate_signal returned, None before the call
    prices,        \* the Close series handed to calculate_rsi
    last_rsi,      \* calculate_rsi(prices).iloc[-1], None before the call
    df,            \* the price history fetch_data_for_position downloaded
    position,      \* the position dict handed to PositionAnalyzer
    utcnow,        \* the day datetime.now(timezone.utc) falls on
    portfolio_data, \* the list generate_json_data hands to analyze_tax_lots
    tax_lots,      \* the list analyze_tax_lots returned
    alerts,        \* the list get_tax_alerts returned
    dca_trades,    \* the trades generate_json_data hands to analyze_dca_performance
    dca_data,      \* the value analyze_dca_performance returned
    portfolio_value, \* PositionSizer.portfolio_value, in cents
    entry_price,   \* the entry price handed to calculate_position_size
    stop_loss_price, \* the stop price handed to calculate_position_size
    sizing,        \* the dict calculate_position_size returned
    has_critical_news, \* MarketAgent.has_critical_news
    recent_signals, \* MarketAgent.recent_signals
    ticker_obj,    \* the yf.Ticker handed to check_whale_intel: its news and insider feed
    whale_intel,   \* the entries of the string check_whale_intel returned
    api_key,       \* AIResearchAgent.api_key
    calls_made,    \* AIResearchAgent.calls_made
    http_requests, \* the requests.get calls issued so far
    news_result,   \* what the last get_news_sentiment / analyze_portfolio returned
    owned,         \* generate_json_data: the positions the portfolio loop has still to fetch
    benchmarks,    \* generate_json_data: the benchmarks dict
    benchmark_analysis, \* what BenchmarkComparison.compare returned
    json_data      \* what generate_json_data returned or raised

vars == <<trades, journal_file, pc, i, positions, active,
          analyzer, weekday, signal_data,
          prices, last_rsi, df, position, utcnow, portfolio_data, tax_lots, alerts,
          dca_trades, dca_data,
          portfolio_value, entry_price, stop_loss_price, sizing,
          has_critical_news, recent_signals, ticker_obj, whale_intel,
          api_key, calls_made, http_requests, news_result,
          owned, benchmarks, benchmark_analysis, json_data>>
journalVars == <<trades, journal_file, pc, i, positions, active>>
signalVars == <<analyzer, weekday, signal_data>>
rsiVars == <<prices, last_rsi>>
valuationVars == <<df, position, utcnow>>
taxVars == <<portfolio_data, tax_lots, alerts>>
dcaVars == <<dca_trades, dca_data>>
sizerVars == <<portfolio_value, entry_price, stop_loss_price, sizing>>
agentVars == <<has_critical_news, recent_signals, ticker_obj, whale_intel>>
aiVars == <<api_key, calls_made, http_requests, news_result>>
dashVars == <<owned, benchmarks, benchmark_analysis, json_data>>
analyticsVars == <<dcaVars, sizerVars, aiVars, dashVars>>

\* ------------------------------------------------------------------------
\* TradeJournal
\* ------------------------------------------------------------------------
EmptyDict == <<>>

\* sorted(self.trades, key=lambda x: x['date']) : stable, ascending
RECURSIVE InsertByDate(_, _)
InsertByDate(s, t) ==
    IF s = <<>> THEN <<t>>
    ELSE IF s[Len(s)].date <= t.date THEN Append(s, t)
    ELSE Append(InsertByDate(SubSeq(s, 1, Len(s) - 1), t), s[Len(s)])

RECURSIVE SortByDate(_)
SortByDate(s) ==
    IF s = <<>> THEN <<>>
    ELSE InsertByDate(SortByDate(SubSeq(s, 1, Len(s) - 1)), s[Len(s)])

\* the None that positions.get returns for a missing ticker
NoPosition == [is_none |-> TRUE]

NewPosition ==
    [amount |-> 0, buy_date |-> None, first_buy_date |-> None,
     last_buy_date |-> None, buy_count |-> 0, trades |-> <<>>]

\* trade.get('amount', trade.get('amount_invested', 0))
TradeAmount(trade) ==
    IF "amount" \in DOMAIN trade THEN trade["amount"]
    ELSE IF "amount_invested" \in DOMAIN trade THEN trade["amount_invested"]
    ELSE 0

Max(a, b) == IF a >= b THEN a ELSE b
Min(a, b) == IF a <= b THEN a ELSE b

\* a BUY that counts only the BUY that opens the position
ApplyBuy_CountOnce(pos, trade) ==
    LET first == pos.first_buy_date = None
    IN [pos EXCEPT !.amount = pos.amount + TradeAmount(trade),
                   !.last_buy_date = trade.date,
                   !.buy_count = IF first THEN 1 ELSE @,
                   !.first_buy_date = IF first THEN trade.date ELSE @,
                   !.buy_date = IF first THEN trade.date ELSE @]

\* the BUY branch of the replay loop
ApplyBuy(pos, trade) ==
    LET first == pos.first_buy_date = None
    IN [pos EXCEPT !.amount = pos.amount + TradeAmount(trade),
                   !.last_buy_date = trade.date,
                   !.buy_count = pos.buy_count + 1,
                   !.first_buy_date = IF first THEN trade.date ELSE @,
                   !.buy_date = IF first THEN trade.date ELSE @]

\* a SELL that subtracts without the floor and closes only on exactly zero
ApplySell_NoFloor(pos, trade) ==
    LET amount == pos.amount - TradeAmount(trade)
    IN IF amount = 0
       THEN [pos EXCEPT !.amount = 0, !.buy_date = None,
                        !.first_buy_date = None, !.last_buy_date = None,
                        !.buy_count = 0]
       ELSE [pos EXCEPT !.amount = amount]

\* a SELL whose close test is < 0, which the floor makes unreachable
ApplySell_NoClose(pos, trade) ==
    LET amount == Max(0, pos.amount - TradeAmount(trade))
    IN IF amount < 0
       THEN [pos EXCEPT !.amount = 0, !.buy_date = None,
                        !.first_buy_date = None, !.last_buy_date = None,
                        !.buy_count = 0]
       ELSE [pos EXCEPT !.amount = amount]

\* a SELL whose close forgets to clear first_buy_date / buy_date
ApplySell_KeepFirst(pos, trade) ==
    LET amount == Max(0, pos.amount - TradeAmount(trade))
    IN IF amount <= 0
       THEN [pos EXCEPT !.amount = 0, !.last_buy_date = None,
                        !.buy_count = 0]
       ELSE [pos EXCEPT !.amount = amount]

\* the SELL branch of the replay loop
ApplySell(pos, trade) ==
    LET amount == Max(0, pos.amount - TradeAmount(trade))
    IN IF amount <= 0
       THEN [pos EXCEPT !.amount = 0, !.buy_date = None,
                        !.first_buy_date = None, !.last_buy_date = None,
                        !.buy_count = 0]
       ELSE [pos EXCEPT !.amount = amount]

\* one iteration of the replay loop of get_positions
ApplyTrade(ps, trade) ==
    LET ticker == trade.ticker
        ps1 == IF ticker \in DOMAIN ps THEN ps ELSE ps @@ (ticker :> NewPosition)
        pos == [ps1[ticker] EXCEPT !.trades = Append(@, trade)]
        pos2 == IF trade.action = "BUY" THEN ApplyBuy(pos, trade)
                ELSE IF trade.action = "SELL" THEN ApplySell(pos, trade)
                ELSE pos
    IN [ps1 EXCEPT ![ticker] = pos2]

\* the replay loop over an already sorted list
RECURSIVE Replay(_)
Replay(s) ==
    IF s = <<>> THEN EmptyDict
    ELSE ApplyTrade(Replay(SubSeq(s, 1, Len(s) - 1)), s[Len(s)])

\* {k: v for k, v in positions.items() if v['amount'] > 0}
ActiveOf(ps) ==
    LET keep == {k \in DOMAIN ps : ps[k].amount > 0}
    IN IF keep = {} THEN EmptyDict ELSE [k \in keep |-> ps[k]]

\* TradeJournal.get_positions as one call
get_positions(trs) == ActiveOf(Replay(SortByDate(trs)))

\* TradeJournal.get_position : positions.get(clean) is None for a missing key
get_position(trs, ticker) ==
    LET ps == get_positions(trs)
        clean == CleanTicker(ticker)
    IN IF clean \in DOMAIN ps THEN ps[clean] ELSE NoPosition

\* TradeJournal.is_owned
is_owned(trs, ticker) ==
    LET pos == get_position(trs, ticker)
    IN pos # NoPosition /\ pos.amount > 0

\* TradeJournal.get_ticker_trades
get_ticker_trades(trs, ticker) ==
    SelectSeq(trs, LAMBDA t : t.ticker = CleanTicker(ticker))

\* the journal files load() may find: any list of at most MaxTrades trades
JournalFiles == UNION {[1..n -> Trades] : n \in 0..MaxTrades}

\* no PositionAnalyzer has been built, no signal generated
NoAnalyzer == [is_none |-> TRUE]
NoSignal == [is_none |-> TRUE]
\* an analytics result before the call that produces it
NotCalled == [called |-> FALSE]
\* no yf.Ticker object has been made
NoTicker == [is_none |-> TRUE]

\* TradeJournal.__init__ / load, before any PositionAnalyzer exists
JournalInit ==
    /\ analyzer = NoAnalyzer
    /\ weekday = 0
    /\ signal_data = NoSignal
    /\ journal_file \in JournalFiles
    /\ trades = journal_file
    /\ pc = "replay"
    /\ i = 0
    /\ positions = EmptyDict
    /\ active = EmptyDict
    /\ prices = <<>>
    /\ last_rsi = None
    /\ df = <<>>
    /\ position = NoPosition
    /\ utcnow = 0
    /\ portfolio_data = <<>>
    /\ tax_lots = <<>>
    /\ alerts = <<>>
    /\ dca_trades = <<>>
    /\ dca_data = NotCalled
    /\ portfolio_value = 0
    /\ entry_price = 0
    /\ stop_loss_price = 0
    /\ sizing = NotCalled
    /\ has_critical_news = FALSE
    /\ recent_signals = <<>>
    /\ ticker_obj = NoTicker
    /\ whale_intel = NotCalled
    /\ api_key = ""
    /\ calls_made = 0
    /\ http_requests = 0
    /\ news_result = NotCalled
    /\ owned = <<>>
    /\ benchmarks = NotCalled
    /\ benchmark_analysis = NotCalled
    /\ json_data = NotCalled

add_trade_Prepend(ticker, action, amount_invested, date) ==
    /\ pc = "returned" \/ (pc = "replay" /\ i = 0)
    /\ Len(trades) < MaxTrades
    /\ Trade(CleanTicker(ticker), Upper(action), amount_invested, date) \in Trades
    /\ trades' = <<Trade(CleanTicker(ticker), Upper(action),
                         amount_invested, date)>> \o trades
    /\ journal_file' = trades'
    /\ pc' = "replay"
    /\ i' = 0
    /\ positions' = EmptyDict
    /\ active' = EmptyDict

\* TradeJournal.add_trade followed by save; the date is the clock's reading
add_trade(ticker, action, amount_invested, date) ==
    /\ pc = "returned" \/ (pc = "replay" /\ i = 0)
    /\ Len(trades) < MaxTrades
    /\ Trade(CleanTicker(ticker), Upper(action), amount_invested, date) \in Trades
    /\ trades' = Append(trades, Trade(CleanTicker(ticker), Upper(action),
                                      amount_invested, date))
    /\ journal_file' = trades'
    /\ pc' = "replay"
    /\ i' = 0
    /\ positions' = EmptyDict
    /\ active' = EmptyDict

\* get_positions is entered again by a later caller: positions = {}
GetPositionsCall ==
    /\ pc = "returned"
    /\ pc' = "replay"
    /\ i' = 0
    /\ positions' = EmptyDict
    /\ active' = EmptyDict
    /\ UNCHANGED <<trades, journal_file>>

\* one iteration of "for trade in sorted(self.trades, ...)"
ReplayTrade ==
    /\ pc = "replay"
    /\ i < Len(trades)
    /\ positions' = ApplyTrade(positions, SortByDate(trades)[i + 1])
    /\ i' = i + 1
    /\ UNCHANGED <<trades, journal_file, pc, active>>

\* the loop is over: filter the active positions and return them
GetPositionsReturn ==
    /\ pc = "replay"
    /\ i = Len(trades)
    /\ active' = ActiveOf(positions)
    /\ pc' = "returned"
    /\ UNCHANGED <<trades, journal_file, i, positions>>

JournalNext ==
    \/ \E ticker \in AddTickers, action \in ActionInputs,
          amount_invested \in Amounts, date \in Dates :
            add_trade(ticker, action, amount_invested, date) /\ UNCHANGED <<signalVars, rsiVars, valuationVars, analyticsVars, agentVars, taxVars>>
    \/ GetPositionsCall /\ UNCHANGED <<signalVars, rsiVars, valuationVars, analyticsVars, agentVars, taxVars>>
    \/ ReplayTrade /\ UNCHANGED <<signalVars, rsiVars, valuationVars, analyticsVars, agentVars, taxVars>>
    \/ GetPositionsReturn /\ UNCHANGED <<signalVars, rsiVars, valuationVars, analyticsVars, agentVars, taxVars>>

JournalSpec == JournalInit /\ [][JournalNext]_vars

\* ------------------------------------------------------------------------
\* The same journal over logs whose amounts are any number float() accepts:
\* add_trade stores float(amount_invested) unchecked, and the file is JSON
\* that other tools write.
\* ------------------------------------------------------------------------
SignedAmounts == {-1, 0, 1}
SignedTrades ==
    [ticker : {"AAPL"}, action : Actions, amount_invested : SignedAmounts,
     date : Dates]
    \cup {Trade("BTC", "BUY", 1, 1), Trade("BTC", "SELL", 1, 2)}
SignedJournalFiles == UNION {[1..n -> SignedTrades] : n \in 0..MaxTrades}

LedgerInit ==
    /\ journal_file \in SignedJournalFiles
    /\ trades = journal_file
    /\ pc = "replay"
    /\ i = 0
    /\ positions = EmptyDict
    /\ active = EmptyDict
    /\ analyzer = NoAnalyzer
    /\ weekday = 0
    /\ signal_data = NoSignal
    /\ prices = <<>>
    /\ last_rsi = None
    /\ df = <<>>
    /\ position = NoPosition
    /\ utcnow = 0
    /\ portfolio_data = <<>>
    /\ tax_lots = <<>>
    /\ alerts = <<>>
    /\ dca_trades = <<>>
    /\ dca_data = NotCalled
    /\ portfolio_value = 0
    /\ entry_price = 0
    /\ stop_loss_price = 0
    /\ sizing = NotCalled
    /\ has_critical_news = FALSE
    /\ recent_signals = <<>>
    /\ ticker_obj = NoTicker
    /\ whale_intel = NotCalled
    /\ api_key = ""
    /\ calls_made = 0
    /\ http_requests = 0
    /\ news_result = NotCalled
    /\ owned = <<>>
    /\ benchmarks = NotCalled
    /\ benchmark_analysis = NotCalled
    /\ json_data = NotCalled

LedgerSpec == LedgerInit /\ [][JournalNext]_vars

\* ------------------------------------------------------------------------
\* PositionAnalyzer: risk score and signal cascade
\* ------------------------------------------------------------------------
\* float comparisons: false whenever an operand is NaN
Gt(x, y) == x # NaN /\ y # NaN /\ x > y
Lt(x, y) == x # NaN /\ y # NaN /\ x < y
Ge(x, y) == x # NaN /\ y # NaN /\ x >= y
Le(x, y) == x # NaN /\ y # NaN /\ x <= y

\* the action None of a dict returned by generate_signal
NoAction == "None"

\* a risk score that returns the raw sum, without max(0, min(100, score))
calculate_risk_score_NoClamp(a) ==
    LET pl == IF a.gain_loss_pct < -10 THEN 15
              ELSE IF a.gain_loss_pct < -5 THEN 8
              ELSE IF a.gain_loss_pct > 20 THEN -10
              ELSE IF a.gain_loss_pct > 10 THEN -5
              ELSE 0
        rsi == IF Gt(a.rsi, 80) THEN 15
               ELSE IF Gt(a.rsi, 70) THEN 8
               ELSE IF Lt(a.rsi, 30) THEN -5
               ELSE 0
        trend == IF a.trend = "DOWN" THEN 10
                 ELSE IF a.trend = "UP" THEN -10
                 ELSE 0
        vol == IF a.vol_pattern = "DISTRIBUTION" THEN 12
               ELSE IF a.vol_pattern = "ACCUMULATION" THEN -8
               ELSE 0
        dd == IF a.drawdown_from_peak < -15 THEN 15
              ELSE IF a.drawdown_from_peak < -10 THEN 8
              ELSE 0
        div == IF a.divergence = "BEARISH" THEN 10
               ELSE IF a.divergence = "BULLISH" THEN -10
               ELSE 0
    IN 50 + pl + rsi + trend + vol + dd + div

\* PositionAnalyzer.calculate_risk_score
calculate_risk_score(a) ==
    LET pl == IF a.gain_loss_pct < -10 THEN 15
              ELSE IF a.gain_loss_pct < -5 THEN 8
              ELSE IF a.gain_loss_pct > 20 THEN -10
              ELSE IF a.gain_loss_pct > 10 THEN -5
              ELSE 0
        rsi == IF Gt(a.rsi, 80) THEN 15
               ELSE IF Gt(a.rsi, 70) THEN 8
               ELSE IF Lt(a.rsi, 30) THEN -5
               ELSE 0
        trend == IF a.trend = "DOWN" THEN 10
                 ELSE IF a.trend = "UP" THEN -10
                 ELSE 0
        vol == IF a.vol_pattern = "DISTRIBUTION" THEN 12
               ELSE IF a.vol_pattern = "ACCUMULATION" THEN -8
               ELSE 0
        dd == IF a.drawdown_from_peak < -15 THEN 15
              ELSE IF a.drawdown_from_peak < -10 THEN 8
              ELSE 0
        div == IF a.divergence = "BEARISH" THEN 10
               ELSE IF a.divergence = "BULLISH" THEN -10
               ELSE 0
    IN Max(0, Min(100, 50 + pl + rsi + trend + vol + dd + div))

\* is_settling with < in place of <=
is_settling_Strict(a) ==
    a.holding_days # None /\ a.holding_days < SETTLING_PERIOD_DAYS

\* self.holding_days is not None and self.holding_days <= SETTLING_PERIOD_DAYS
is_settling(a) ==
    a.holding_days # None /\ a.holding_days <= SETTLING_PERIOD_DAYS

\* is_crypto that forgets to strip "-USD"
is_crypto_NoStrip(a) == a.ticker \in CRYPTO_SYMBOLS

\* self.ticker.replace("-USD", "") in CRYPTO_SYMBOLS
is_crypto(a) == ReplaceUsd(a.ticker) \in CRYPTO_SYMBOLS

\* a weekend test that knows Saturday only
is_weekend_SaturdayOnly(wd) == wd = 5

\* datetime.now(timezone.utc).weekday() >= 5
is_weekend(wd) == wd >= 5

\* "self.holding_days and ...": None and 0 are falsy
Truthy(x) == x # None /\ x # 0

\* the guards of the if / elif chain, in source order ---------------------

\* a hard stop that misses the threshold itself
hard_stop_Strict(a) == a.gain_loss_pct < STOP_LOSS_HARD

hard_stop(a) == a.gain_loss_pct <= STOP_LOSS_HARD

trailing_stop(a) ==
    a.gain_loss_pct > 0 /\ Le(a.drawdown_from_peak, -TRAILING_STOP_PCT)

extreme_profit(a) == a.gain_loss_pct >= PROFIT_TIER_4

overbought_profit(a) ==
    Gt(a.rsi, RSI_EXTREME_OVERBOUGHT) /\ a.gain_loss_pct >= PROFIT_TIER_2

profit_tier_3(a) == a.gain_loss_pct >= PROFIT_TIER_3

profit_tier_2(a) == a.gain_loss_pct >= PROFIT_TIER_2

tier_1_overbought(a) ==
    a.gain_loss_pct >= PROFIT_TIER_1 /\ Gt(a.rsi, RSI_OVERBOUGHT)

bearish_divergence(a) == a.divergence = "BEARISH" /\ a.gain_loss_pct > 5

distribution(a) == a.vol_pattern = "DISTRIBUTION" /\ a.gain_loss_pct > 0

soft_stop(a) == a.gain_loss_pct <= STOP_LOSS_SOFT

warning_loss(a) == a.gain_loss_pct <= STOP_LOSS_WARN

add_on_dip(a) ==
    /\ Truthy(a.holding_days)
    /\ a.holding_days >= MIN_HOLD_FOR_ADD
    /\ a.gain_loss_pct <= ADD_ON_DIP_DRAWDOWN
    /\ Lt(a.rsi, ADD_ON_DIP_RSI)
    /\ a.trend # "DOWN"
    /\ a.vol_pattern # "DISTRIBUTION"

bullish_divergence(a) == a.divergence = "BULLISH" /\ a.gain_loss_pct < 0

\* an add-on-breakout rule that does not look at the holding period
add_on_breakout_NoHoldTest(a) ==
    /\ a.gain_loss_pct >= ADD_ON_BREAKOUT_PCT
    /\ a.resistance # NaN
    /\ 100 * a.current_price >= 98 * a.resistance
    /\ a.vol_ratio_x10 > VOLUME_SPIKE_RATIO_X10
    /\ Lt(a.rsi, RSI_OVERBOUGHT)

\* current_price >= resistance * 0.98 and vol_ratio > VOLUME_SPIKE_RATIO
add_on_breakout(a) ==
    /\ Truthy(a.holding_days)
    /\ a.holding_days >= MIN_HOLD_FOR_ADD
    /\ a.gain_loss_pct >= ADD_ON_BREAKOUT_PCT
    /\ a.resistance # NaN
    /\ 100 * a.current_price >= 98 * a.resistance
    /\ a.vol_ratio_x10 > VOLUME_SPIKE_RATIO_X10
    /\ Lt(a.rsi, RSI_OVERBOUGHT)

accumulation(a) == a.vol_pattern = "ACCUMULATION" /\ a.gain_loss_pct >= 0

\* a tier-1 hold that misses the threshold itself
tier_1_hold_Strict(a) == a.gain_loss_pct > PROFIT_TIER_1

tier_1_hold(a) == a.gain_loss_pct >= PROFIT_TIER_1

profitable_hold(a) == a.gain_loss_pct > 0

Guard(rule, a) ==
    CASE rule = "hard_stop" -> hard_stop(a)
      [] rule = "trailing_stop" -> trailing_stop(a)
      [] rule = "extreme_profit" -> extreme_profit(a)
      [] rule = "overbought_profit" -> overbought_profit(a)
      [] rule = "profit_tier_3" -> profit_tier_3(a)
      [] rule = "profit_tier_2" -> profit_tier_2(a)
      [] rule = "tier_1_overbought" -> tier_1_overbought(a)
      [] rule = "bearish_divergence" -> bearish_divergence(a)
      [] rule = "distribution" -> distribution(a)
      [] rule = "soft_stop" -> soft_stop(a)
      [] rule = "warning_loss" -> warning_loss(a)
      [] rule = "add_on_dip" -> add_on_dip(a)
      [] rule = "bullish_divergence" -> bullish_divergence(a)
      [] rule = "add_on_breakout" -> add_on_breakout(a)
      [] rule = "accumulation" -> accumulation(a)
      [] rule = "tier_1_hold" -> tier_1_hold(a)
      [] rule = "profitable_hold" -> profitable_hold(a)
      [] rule = "loss_hold" -> TRUE

\* "if cond: reasoning.append(text)"
Opt(cond, text) == IF cond THEN <<text>> ELSE <<>>

\* a recommendation on a priority scale of 0..50
Sig_HalfScale(signal, color, action, priority, reasoning) ==
    [signal |-> signal, color |-> color, action |-> action,
     priority |-> priority \div 2, reasoning |-> reasoning]

Sig(signal, color, action, priority, reasoning) ==
    [signal |-> signal, color |-> color, action |-> action,
     priority |-> priority, reasoning |-> reasoning]

\* the body of each branch: signal label (without the formatted numbers),
\* color, action, priority, reasoning
Outcome(rule, a) ==
    CASE rule = "hard_stop" ->
            Sig("STOP LOSS", "red", "SELL_ALL", 100,
                <<"Hard stop loss triggered", "Cut losses to preserve capital">>)
      [] rule = "trailing_stop" ->
            Sig("TRAILING STOP", "orange", "SELL_HALF", 90,
                <<"Dropped from peak", "Consider selling to protect remaining profits">>)
      [] rule = "extreme_profit" ->
            Sig("TAKE PROFIT", "green", "SELL_MOST", 85,
                <<"Exceptional gain", "Consider selling 75% to lock in profits">>)
      [] rule = "overbought_profit" ->
            Sig("SELL RSI", "green", "SELL_HALF", 80,
                <<"RSI extremely overbought", "Good profit - trim position">>)
      [] rule = "profit_tier_3" ->
            Sig("TRIM", "green", "SELL_QUARTER", 70,
                <<"Strong gain", "Consider trimming 25% of position">>)
      [] rule = "profit_tier_2" ->
            Sig("PROFIT", "green", "SELL_QUARTER", 60,
                <<"Solid gain">>
                \o Opt(Gt(a.rsi, RSI_OVERBOUGHT), "RSI overbought - good time to trim"))
      [] rule = "tier_1_overbought" ->
            Sig("OVERBOUGHT", "orange", "CONSIDER_TRIM", 50,
                <<"Profit with RSI", "Consider taking partial profits">>)
      [] rule = "bearish_divergence" ->
            Sig("DIVERGENCE", "orange", "WATCH_CLOSELY", 45,
                <<"Bearish RSI divergence detected",
                  "Price rising but momentum weakening">>)
      [] rule = "distribution" ->
            Sig("DISTRIBUTION", "orange", "WATCH_CLOSELY", 40,
                <<"Volume pattern suggests selling pressure", "Watch for breakdown">>)
      [] rule = "soft_stop" ->
            Sig("LOSS", "red", "EVALUATE", 75,
                <<"Approaching stop loss">>
                \o (IF a.trend = "DOWN"
                    THEN <<"Downtrend - consider cutting losses">>
                    ELSE Opt(Lt(a.rsi, RSI_OVERSOLD), "RSI oversold - potential bounce")))
      [] rule = "warning_loss" ->
            Sig("WATCH", "orange", "MONITOR", 30,
                <<"Position in warning zone">>
                \o Opt(Gt(a.support, 0) /\ 100 * a.current_price < 102 * a.support,
                       "Near support"))
      [] rule = "add_on_dip" ->
            Sig("ADD ON DIP", "green", "BUY_MORE", 55,
                <<"RSI oversold", "Consider averaging down (careful!)",
                  "Only if thesis intact">>)
      [] rule = "bullish_divergence" ->
            Sig("BULLISH DIV", "blue", "HOLD_STRONG", 35,
                <<"Bullish RSI divergence detected",
                  "Price falling but momentum improving">>)
      [] rule = "add_on_breakout" ->
            Sig("BREAKOUT", "purple", "BUY_MORE", 50,
                <<"Breaking resistance with volume", "Consider adding to winner">>)
      [] rule = "accumulation" ->
            Sig("STRONG", "blue", "HOLD", 20,
                <<"Healthy accumulation pattern", "Institutional buying detected">>)
      [] rule = "tier_1_hold" ->
            Sig("HOLD", "blue", "HOLD", 15,
                <<"Approaching first profit target", "Let winner run">>)
      [] rule = "profitable_hold" ->
            Sig("HOLD", "blue", "HOLD", 10,
                <<"Position profitable">> \o Opt(a.trend = "UP", "Trend supportive"))
      [] rule = "loss_hold" ->
            Sig("HOLD", "blue", "HOLD", 10,
                <<"Minor loss - within tolerance">>
                \o Opt(Lt(a.rsi, RSI_OVERSOLD), "RSI oversold - potential bounce"))

\* a chain that tests the extreme-profit tier before the trailing stop
CodeOrder_ProfitFirst ==
    <<"hard_stop", "extreme_profit", "trailing_stop", "overbought_profit",
      "profit_tier_3", "profit_tier_2", "tier_1_overbought",
      "bearish_divergence", "distribution", "soft_stop", "warning_loss",
      "add_on_dip", "bullish_divergence", "add_on_breakout", "accumulation",
      "tier_1_hold", "profitable_hold", "loss_hold">>

\* a chain that tests the soft stop after the warning-loss rule
CodeOrder_SoftStopLate ==
    <<"hard_stop", "trailing_stop", "extreme_profit", "overbought_profit",
      "profit_tier_3", "profit_tier_2", "tier_1_overbought",
      "bearish_divergence", "distribution", "warning_loss", "soft_stop",
      "add_on_dip", "bullish_divergence", "add_on_breakout", "accumulation",
      "tier_1_hold", "profitable_hold", "loss_hold">>

\* the order in which the if / elif chain tests its branches
CodeOrder ==
    <<"hard_stop", "trailing_stop", "extreme_profit", "overbought_profit",
      "profit_tier_3", "profit_tier_2", "tier_1_overbought",
      "bearish_divergence", "distribution", "soft_stop", "warning_loss",
      "add_on_dip", "bullish_divergence", "add_on_breakout", "accumulation",
      "tier_1_hold", "profitable_hold", "loss_hold">>

\* if / elif / ... / else over a list of branches: the first whose guard holds
RECURSIVE FirstMatch(_, _)
FirstMatch(order, a) ==
    IF Len(order) = 1 \/ Guard(Head(order), a) THEN Head(order)
    ELSE FirstMatch(Tail(order), a)

\* the settling branch of generate_signal
SettlingSignal(a) ==
    IF a.gain_loss_pct >= PROFIT_TIER_1
    THEN Sig("NEW (Wait)", "green", NoAction, 0, <<"Profit but settling">>)
    ELSE IF a.gain_loss_pct <= STOP_LOSS_HARD
    THEN Sig("NEW (Caution)", "red", NoAction, 0,
             <<"Significant loss during settling">>)
    ELSE Sig("NEW", "blue", NoAction, 0, <<"Settling period">>)

WithRisk(sig, a) ==
    [signal |-> sig.signal, color |-> sig.color, action |-> sig.action,
     priority |-> sig.priority, reasoning |-> sig.reasoning,
     risk_score |-> calculate_risk_score(a)]

\* PositionAnalyzer.generate_signal; wd is the weekday the clock reads
generate_signal(a, wd) ==
    IF is_weekend(wd) /\ ~is_crypto(a)
    THEN WithRisk(Sig("WEEKEND", "gray", NoAction, 0, <<"Market closed">>), a)
    ELSE IF is_settling(a)
    THEN WithRisk(SettlingSignal(a), a)
    ELSE WithRisk(Outcome(FirstMatch(CodeOrder, a), a), a)

\* the values the analyzer's fields take: each threshold of the chain, a value
\* on either side of it, and the undefined ones
GainValues == {-16, -15, -14, -10, -8, -5, -4, 0, 1, 5, 6, 15, 25, 40, 60}
DrawdownValues == {-12, -11, 0}
RsiValues == {NaN, 34, 70, 71, 80, 81}
HoldingDayValues == {None, 0, 3, 4, 7}
TrendValues == {"UP", "DOWN", "SIDEWAYS"}
VolPatternValues == {"ACCUMULATION", "DISTRIBUTION", "NEUTRAL"}
DivergenceValues == {"None", "BULLISH", "BEARISH"}
SignalTickers == {"AAPL", "BTC-USD"}
Weekdays == {4, 5}
\* current price 100 against support, resistance and volume ratio (x10)
Markets ==
    { [current_price |-> 100, support |-> 99, resistance |-> 100, vol_ratio_x10 |-> 26],
      [current_price |-> 100, support |-> 95, resistance |-> 100, vol_ratio_x10 |-> 25],
      [current_price |-> 100, support |-> 95, resistance |-> 103, vol_ratio_x10 |-> 26] }

Analyzer(ticker, hd, gain, dd, rsi, trend, vol, div, m) ==
    [ticker |-> ticker, holding_days |-> hd, gain_loss_pct |-> gain,
     drawdown_from_peak |-> dd, rsi |-> rsi, trend |-> trend,
     vol_pattern |-> vol, divergence |-> div,
     current_price |-> m.current_price, support |-> m.support,
     resistance |-> m.resistance, vol_ratio_x10 |-> m.vol_ratio_x10]

\* a MarketAgent before fetch_data_for_position; the journal is not involved
SignalInit ==
    /\ analyzer = NoAnalyzer
    /\ weekday = 0
    /\ signal_data = NoSignal
    /\ trades = <<>>
    /\ journal_file = <<>>
    /\ pc = "replay"
    /\ i = 0
    /\ positions = EmptyDict
    /\ active = EmptyDict
    /\ prices = <<>>
    /\ last_rsi = None
    /\ df = <<>>
    /\ position = NoPosition
    /\ utcnow = 0
    /\ portfolio_data = <<>>
    /\ tax_lots = <<>>
    /\ alerts = <<>>
    /\ dca_trades = <<>>
    /\ dca_data = NotCalled
    /\ portfolio_value = 0
    /\ entry_price = 0
    /\ stop_loss_price = 0
    /\ sizing = NotCalled
    /\ has_critical_news = FALSE
    /\ recent_signals = <<>>
    /\ ticker_obj = NoTicker
    /\ whale_intel = NotCalled
    /\ api_key = ""
    /\ calls_made = 0
    /\ http_requests = 0
    /\ news_result = NotCalled
    /\ owned = <<>>
    /\ benchmarks = NotCalled
    /\ benchmark_analysis = NotCalled
    /\ json_data = NotCalled

\* ------------------------------------------------------------------------
\* MarketAgent.check_whale_intel and log_signal.  A yf.Ticker is its symbol,
\* its news (a list of story titles, or an access that raises) and its
\* insider_transactions (None, a frame of rows in index order, or an access
\* that raises).  The string returned joins a set, whose order is not
\* defined, so the model keeps the set.
\* ------------------------------------------------------------------------
\* three of the keywords of WHALE_KEYWORDS
WHALE_KEYWORDS == {"Berkshire", "Buffett", "BlackRock"}
NewsTitles == {"Buffett's Berkshire adds to its stake", "Shares slip after earnings"}
\* the keywords whose lower-case form occurs in title.lower()
WhaleMentions(title) ==
    CASE title = "Buffett's Berkshire adds to its stake" -> {"Berkshire", "Buffett"}
      [] OTHER -> {}

InsiderTexts ==
    {"Purchase at price 10.00 per share.", "Sale at price 10.00 per share.", ""}
\* "purchase" in str(row.get('Text', '')).lower()
IsPurchase(text) == text \in {"Purchase at price 10.00 per share."}

\* "-" in symbol
HasDash(symbol) == symbol \in {"BTC-USD", "BRK-B"}

\* sort_index(ascending=False).head(3): the three rows of highest index
head_Unsorted(rows) == SubSeq(rows, 1, Min(3, Len(rows)))

head(rows) == [k \in 1..Min(3, Len(rows)) |-> rows[Len(rows) + 1 - k]]

InsiderRows(obj) ==
    IF HasDash(obj.ticker) \/ obj.insider_transactions.kind # "frame"
    THEN <<>>
    ELSE head(obj.insider_transactions.rows)

\* the entries of the string returned, and whether has_critical_news is set
check_whale_intel(obj) ==
    LET whales == IF obj.news.raises THEN {}
                  ELSE UNION {WhaleMentions(obj.news.stories[k]) :
                                    k \in 1..Len(obj.news.stories)}
        rows == InsiderRows(obj)
        buys == {k \in 1..Len(rows) : IsPurchase(rows[k].Text)}
    IN [intel |-> {<<"whale", w>> : w \in whales}
                    \cup {<<"Insider Buy", rows[k].Shares>> : k \in buys},
        critical |-> buys # {}]

\* a ticker without news and without insider transactions
QuietTicker(symbol) ==
    [ticker |-> symbol, news |-> [raises |-> FALSE, stories |-> <<>>],
     insider_transactions |-> [kind |-> "none", rows |-> <<>>]]

\* the dict log_signal appends; an entry for holding_days None is left out
\* by the code and carries None here
log_signal(a, sig) ==
    [ticker |-> ReplaceUsd(a.ticker),
     action |-> IF sig.action = NoAction THEN "ALERT" ELSE sig.action,
     price |-> a.current_price,
     gain_loss_pct |-> a.gain_loss_pct,
     holding_days |-> a.holding_days,
     notes |-> SubSeq(sig.reasoning, 1, Min(2, Len(sig.reasoning)))]

fetch_data_for_position_LogFromSixty(a, wd, obj) ==
    /\ analyzer' = a
    /\ weekday' = wd
    /\ signal_data' = generate_signal(a, wd)
    /\ recent_signals' = IF signal_data'.priority >= 60
                         THEN Append(recent_signals, log_signal(a, signal_data'))
                         ELSE recent_signals
    /\ ticker_obj' = obj
    /\ whale_intel' = [intel |-> check_whale_intel(obj).intel]
    /\ has_critical_news' = (\/ has_critical_news
                             \/ signal_data'.priority >= 70
                             \/ check_whale_intel(obj).critical)

\* fetch_data_for_position once the history is there: the analyzer, its
\* signal, the critical-signal log and the whale intel
fetch_data_for_position(a, wd, obj) ==
    /\ analyzer' = a
    /\ weekday' = wd
    /\ signal_data' = generate_signal(a, wd)
    /\ recent_signals' = IF signal_data'.priority >= 70
                         THEN Append(recent_signals, log_signal(a, signal_data'))
                         ELSE recent_signals
    /\ ticker_obj' = obj
    /\ whale_intel' = [intel |-> check_whale_intel(obj).intel]
    /\ has_critical_news' = (\/ has_critical_news
                             \/ signal_data'.priority >= 70
                             \/ check_whale_intel(obj).critical)

\* fetch_data_for_position for a ticker that has no news and no insiders
Evaluate(a, wd) ==
    /\ fetch_data_for_position(a, wd, QuietTicker(a.ticker))
    /\ UNCHANGED <<journalVars, rsiVars, valuationVars, analyticsVars, taxVars>>

SignalNext ==
    /\ analyzer = NoAnalyzer
    /\ \E ticker \in SignalTickers, hd \in HoldingDayValues, gain \in GainValues,
          dd \in DrawdownValues, rsi \in RsiValues, trend \in TrendValues,
          vol \in VolPatternValues, div \in DivergenceValues, m \in Markets,
          wd \in Weekdays :
            Evaluate(Analyzer(ticker, hd, gain, dd, rsi, trend, vol, div, m), wd)

SignalSpec == SignalInit /\ [][SignalNext]_vars

\* ------------------------------------------------------------------------
\* calculate_risk_score over every band of every adjustment: a value inside
\* each band and the values on either side of each threshold
\* ------------------------------------------------------------------------
RiskGainValues == {-11, -10, -6, -5, 10, 11, 20, 21}
RiskRsiValues == {NaN, 29, 30, 70, 71, 80, 81}
RiskDrawdownValues == {-16, -15, -11, -10, 0}

\* the same Evaluate step, for a position past the settling period on a
\* trading day, so that the cascade and the risk score are both computed
RiskNext ==
    /\ analyzer = NoAnalyzer
    /\ \E gain \in RiskGainValues, dd \in RiskDrawdownValues,
          rsi \in RiskRsiValues, trend \in TrendValues,
          vol \in VolPatternValues, div \in DivergenceValues :
            Evaluate(Analyzer("AAPL", MIN_HOLD_FOR_ADD, gain, dd, rsi, trend,
                              vol, div, CHOOSE m \in Markets : m.support = 99),
                     4)

RiskSpec == SignalInit /\ [][RiskNext]_vars

\* ------------------------------------------------------------------------
\* TechnicalAnalyzer.calculate_rsi
\* ------------------------------------------------------------------------
\* period=14
RSI_PERIOD == 14
\* the longest Close series, and the closes its bars take
MaxBars == 15
PriceValues == {1, 2}

\* prices.diff(): NaN at the first bar
Delta(p, k) == IF k = 1 THEN NaN ELSE p[k] - p[k - 1]

\* delta.where(delta > 0, 0): the NaN of the first bar fails the test and is
\* replaced by 0
GainAt(p, k) == IF Gt(Delta(p, k), 0) THEN Delta(p, k) ELSE 0

\* -delta.where(delta < 0, 0)
LossAt(p, k) == IF Lt(Delta(p, k), 0) THEN 0 - Delta(p, k) ELSE 0

\* the sums behind .rolling(window=period).mean() over bars lo..hi
RECURSIVE GainSum(_, _, _)
GainSum(p, lo, hi) ==
    IF lo > hi THEN 0 ELSE GainAt(p, hi) + GainSum(p, lo, hi - 1)

RECURSIVE LossSum(_, _, _)
LossSum(p, lo, hi) ==
    IF lo > hi THEN 0 ELSE LossAt(p, hi) + LossSum(p, lo, hi - 1)

\* an RSI averaged over the bars there are (min_periods=1)
calculate_rsi_PartialWindow(p) ==
    LET n == Len(p)
        gain == GainSum(p, Max(1, n - RSI_PERIOD + 1), n)
        loss == LossSum(p, Max(1, n - RSI_PERIOD + 1), n)
    IN IF loss = 0 THEN (IF gain = 0 THEN NaN ELSE 100)
       ELSE (100 * gain) \div (gain + loss)

\* calculate_rsi(prices).iloc[-1], as a whole number (rounded down).
\* rolling(window=14) is NaN before 14 bars; gain / loss is NaN for 0 / 0 and
\* inf for x / 0, and 100 - 100 / (1 + inf) is 100;
\* otherwise 100 - 100 / (1 + gain / loss) = 100 * gain / (gain + loss)
calculate_rsi(p) ==
    LET n == Len(p)
        gain == GainSum(p, n - RSI_PERIOD + 1, n)
        loss == LossSum(p, n - RSI_PERIOD + 1, n)
    IN IF n < RSI_PERIOD THEN NaN
       ELSE IF loss = 0 THEN (IF gain = 0 THEN NaN ELSE 100)
       ELSE (100 * gain) \div (gain + loss)

\* a Close series of 1 to MaxBars bars, before calculate_rsi is called on it
RsiInit ==
    /\ prices \in UNION {[1..n -> PriceValues] : n \in 1..MaxBars}
    /\ last_rsi = None
    /\ analyzer = NoAnalyzer
    /\ weekday = 0
    /\ signal_data = NoSignal
    /\ trades = <<>>
    /\ journal_file = <<>>
    /\ pc = "replay"
    /\ i = 0
    /\ positions = EmptyDict
    /\ active = EmptyDict
    /\ df = <<>>
    /\ position = NoPosition
    /\ utcnow = 0
    /\ portfolio_data = <<>>
    /\ tax_lots = <<>>
    /\ alerts = <<>>
    /\ dca_trades = <<>>
    /\ dca_data = NotCalled
    /\ portfolio_value = 0
    /\ entry_price = 0
    /\ stop_loss_price = 0
    /\ sizing = NotCalled
    /\ has_critical_news = FALSE
    /\ recent_signals = <<>>
    /\ ticker_obj = NoTicker
    /\ whale_intel = NotCalled
    /\ api_key = ""
    /\ calls_made = 0
    /\ http_requests = 0
    /\ news_result = NotCalled
    /\ owned = <<>>
    /\ benchmarks = NotCalled
    /\ benchmark_analysis = NotCalled
    /\ json_data = NotCalled

\* self.rsi = self.ta.calculate_rsi(df['Close']).iloc[-1]
CalculateRsi ==
    /\ last_rsi = None
    /\ last_rsi' = calculate_rsi(prices)
    /\ UNCHANGED <<prices, journalVars, signalVars, valuationVars, analyticsVars, agentVars, taxVars>>

RsiNext == CalculateRsi

RsiSpec == RsiInit /\ [][RsiNext]_vars

\* ------------------------------------------------------------------------
\* PositionAnalyzer.__init__: the valuation of a position against its price
\* history.  Days are whole numbers; a date string is a record.
\* ------------------------------------------------------------------------
\* no date: None, a missing key or ""
NoDate == [kind |-> "none"]
\* "2025-12-26T10:00:00+00:00", what add_trade writes
IsoDate(d) == [kind |-> "iso", day |-> d]
\* "2025-12-26", a date typed into the journal file without a time
PlainDate(d) == [kind |-> "date", day |-> d]
\* a string neither fromisoformat nor strptime accepts
BadDate == [kind |-> "bad"]

\* "if not date_str" is false
DateGiven(date_str) == date_str.kind # "none"
\* fromisoformat / strptime succeed
Parses(date_str) == date_str.kind \in {"iso", "date"}

Closes(frame) == [k \in 1..Len(frame) |-> frame[k].close]

\* "for idx in self.df.index: if idx_date >= buy_date: return ..." with > for >=
RECURSIVE FirstIndexFrom_Strict(_, _, _)
FirstIndexFrom_Strict(frame, k, buy_date) ==
    IF k > Len(frame) THEN 0
    ELSE IF frame[k].date > buy_date THEN k
    ELSE FirstIndexFrom_Strict(frame, k + 1, buy_date)

\* "for idx in self.df.index: if idx_date >= buy_date: return ...":
\* the index of the bar the loop returns at, 0 when it runs to the end
RECURSIVE FirstIndexFrom(_, _, _)
FirstIndexFrom(frame, k, buy_date) ==
    IF k > Len(frame) THEN 0
    ELSE IF frame[k].date >= buy_date THEN k
    ELSE FirstIndexFrom(frame, k + 1, buy_date)

\* PositionAnalyzer._get_price_on_date
_get_price_on_date(frame, date_str, current_price) ==
    IF ~DateGiven(date_str) THEN current_price
    ELSE IF ~Parses(date_str) THEN current_price
    ELSE LET idx == FirstIndexFrom(frame, 1, date_str.day)
         IN IF idx # 0 THEN frame[idx].close
            ELSE IF Len(frame) > 0 THEN frame[1].close
            ELSE current_price

\* PositionAnalyzer._calc_holding_days for a date string: a date without a
\* time parses to a naive datetime, and now(utc) - naive raises TypeError
_calc_holding_days(pos, today) ==
    IF ~DateGiven(pos.first_buy_date) THEN None
    ELSE IF pos.first_buy_date.kind = "iso" THEN today - pos.first_buy_date.day
    ELSE None

MaxOf(S) == CHOOSE x \in S : \A y \in S : y <= x
MinOf(S) == CHOOSE x \in S : \A y \in S : y >= x

\* a peak that falls back on the first bar when no bar follows the purchase
_get_peak_since_buy_EarliestFallback(frame, pos, current_price) ==
    IF ~DateGiven(pos.first_buy_date) THEN current_price
    ELSE IF ~Parses(pos.first_buy_date) THEN current_price
    ELSE LET since == {k \in 1..Len(frame) : frame[k].date >= pos.first_buy_date.day}
         IN IF since # {} THEN MaxOf({frame[k].high : k \in since})
            ELSE frame[1].high

\* PositionAnalyzer._get_peak_since_buy
_get_peak_since_buy(frame, pos, current_price) ==
    IF ~DateGiven(pos.first_buy_date) THEN current_price
    ELSE IF ~Parses(pos.first_buy_date) THEN current_price
    ELSE LET since == {k \in 1..Len(frame) : frame[k].date >= pos.first_buy_date.day}
         IN IF since # {} THEN MaxOf({frame[k].high : k \in since})
            ELSE current_price

\* a current value that is 0 when the purchase price is not positive
current_value_ZeroFallback(amount, current_price, price_at_purchase) ==
    IF price_at_purchase > 0
    THEN (amount * current_price) \div price_at_purchase
    ELSE 0

\* amount * (current_price / price_at_purchase) if price_at_purchase > 0
current_value(amount, current_price, price_at_purchase) ==
    IF price_at_purchase > 0
    THEN (amount * current_price) \div price_at_purchase
    ELSE amount

\* (gain_loss_dollars / amount) * 100 if amount > 0 else 0
gain_loss_pct(gain_loss_dollars, amount) ==
    IF amount > 0 THEN (gain_loss_dollars * 100) \div amount ELSE 0

\* ((current_price - peak) / peak) * 100 if peak > 0 else 0
drawdown_from_peak(current_price, peak_since_buy) ==
    IF peak_since_buy > 0
    THEN ((current_price - peak_since_buy) * 100) \div peak_since_buy
    ELSE 0

\* sum of f[lo..hi]
RECURSIVE SumF(_, _, _)
SumF(f, lo, hi) == IF lo > hi THEN 0 ELSE f[hi] + SumF(f, lo, hi - 1)

\* TechnicalAnalyzer.volume_analysis, vol_ratio in tenths rounded up (which
\* keeps the test vol_ratio > 2.5 exact)
volume_ratio_x10(frame) ==
    LET n == Len(frame)
        lo == Max(1, n - 10)
        vol == [k \in 1..n |-> frame[k].volume]
        total == SumF(vol, lo, n - 1)
    IN IF total > 0
       THEN 0 - ((0 - 10 * vol[n] * (n - lo)) \div total)
       ELSE 10

\* TechnicalAnalyzer.volume_analysis, the pattern of the last five bars;
\* x > y * 1.5 is 2x > 3y
volume_pattern(frame) ==
    LET n == Len(frame)
        lo == Max(1, n - 4)
        up == [k \in 1..n |->
                  IF frame[k].close > frame[k].open THEN frame[k].volume ELSE 0]
        down == [k \in 1..n |->
                  IF frame[k].close < frame[k].open THEN frame[k].volume ELSE 0]
        up_volume == SumF(up, lo, n)
        down_volume == SumF(down, lo, n)
    IN IF 2 * up_volume > 3 * down_volume THEN "ACCUMULATION"
       ELSE IF 2 * down_volume > 3 * up_volume THEN "DISTRIBUTION"
       ELSE "NEUTRAL"

\* window=20 of calculate_support_resistance and of sma_20; sma_50; lookback=14
SR_WINDOW == 20
SMA_LONG == 50
LOOKBACK == 14

\* lows.iloc[-1] of df['Low'].rolling(window=20).min()
support_level(frame) ==
    LET n == Len(frame)
    IN IF n < SR_WINDOW THEN NaN
       ELSE MinOf({frame[k].low : k \in (n - SR_WINDOW + 1)..n})

\* highs.iloc[-1] of df['High'].rolling(window=20).max()
resistance_level(frame) ==
    LET n == Len(frame)
    IN IF n < SR_WINDOW THEN NaN
       ELSE MaxOf({frame[k].high : k \in (n - SR_WINDOW + 1)..n})

\* TechnicalAnalyzer.detect_divergence over the end points of the lookback;
\* the RSI of the window's first bar is the RSI of the series up to that bar
detect_divergence(p) ==
    LET n == Len(p)
        first == n - LOOKBACK + 1
        rsi_first == calculate_rsi(SubSeq(p, 1, first))
        rsi_end == calculate_rsi(p)
    IN IF n < LOOKBACK THEN "None"
       ELSE IF p[n] < p[first] /\ Gt(rsi_end, rsi_first) THEN "BULLISH"
       ELSE IF p[n] > p[first] /\ Lt(rsi_end, rsi_first) THEN "BEARISH"
       ELSE "None"

\* the trend of __init__: sma_20 is NaN before 20 bars, sma_50 is sma_20 up to
\* 50 bars; the means are compared through their sums
trend_of(p) ==
    LET n == Len(p)
        sum_20 == SumF(p, n - SR_WINDOW + 1, n)
        sum_50 == SumF(p, n - SMA_LONG + 1, n)
        sma_20_above_50 == n > SMA_LONG /\ SMA_LONG * sum_20 > SR_WINDOW * sum_50
        sma_20_below_50 == n > SMA_LONG /\ SMA_LONG * sum_20 < SR_WINDOW * sum_50
    IN IF n < SR_WINDOW THEN "SIDEWAYS"
       ELSE IF SR_WINDOW * p[n] > sum_20 /\ sma_20_above_50 THEN "UP"
       ELSE IF SR_WINDOW * p[n] < sum_20 /\ sma_20_below_50 THEN "DOWN"
       ELSE "SIDEWAYS"

\* daily_change: numpy returns inf or nan for a division by 0.0, with a
\* warning and without raising; NaN stands for either
daily_change(p) ==
    LET n == Len(p)
    IN IF p[n - 1] = 0 THEN NaN ELSE ((p[n] - p[n - 1]) * 100) \div p[n - 1]

\* PositionAnalyzer.__init__: the fields of the analyzer
PositionAnalyzer(ticker, pos, frame, today) ==
    LET price == frame[Len(frame)].close
        date_str == IF DateGiven(pos.buy_date) THEN pos.buy_date
                    ELSE pos.first_buy_date
        bought_at == _get_price_on_date(frame, date_str, price)
        value == current_value(pos.amount, price, bought_at)
        peak == _get_peak_since_buy(frame, pos, price)
    IN [ticker |-> ticker,
        current_price |-> price,
        amount |-> pos.amount,
        price_at_purchase |-> bought_at,
        current_value |-> value,
        holding_days |-> _calc_holding_days(pos, today),
        gain_loss_dollars |-> value - pos.amount,
        gain_loss_pct |-> gain_loss_pct(value - pos.amount, pos.amount),
        peak_since_buy |-> peak,
        drawdown_from_peak |-> drawdown_from_peak(price, peak),
        rsi |-> calculate_rsi(Closes(frame)),
        vol_ratio_x10 |-> volume_ratio_x10(frame),
        vol_pattern |-> volume_pattern(frame),
        support |-> support_level(frame),
        resistance |-> resistance_level(frame),
        divergence |-> detect_divergence(Closes(frame)),
        trend |-> trend_of(Closes(frame)),
        daily_change |-> daily_change(Closes(frame))]

\* the bars of a history: open, high, low, close chosen so that every
\* quotient of the valuation is a whole number, with a bar that closes at 0
\* and a bar without any trade
BarShapes ==
    { [open |-> 40, high |-> 50, low |-> 40, close |-> 50, volume |-> 3000],
      [open |-> 50, high |-> 50, low |-> 40, close |-> 40, volume |-> 1000],
      [open |-> 50, high |-> 100, low |-> 50, close |-> 100, volume |-> 1000],
      [open |-> 100, high |-> 200, low |-> 100, close |-> 100, volume |-> 1000],
      [open |-> 40, high |-> 40, low |-> 0, close |-> 0, volume |-> 1000],
      [open |-> 0, high |-> 0, low |-> 0, close |-> 0, volume |-> 0] }

\* the days that have a bar: day 7 has none
BarDates == <<5, 6, 8>>

Bar(shape, date) ==
    [date |-> date, open |-> shape.open, high |-> shape.high,
     low |-> shape.low, close |-> shape.close, volume |-> shape.volume]

\* stock.history(): the last two or three bars, in chronological order
Frames ==
    UNION { { [k \in 1..n |-> Bar(f[k], BarDates[Len(BarDates) - n + k])] :
                f \in [1..n -> BarShapes] } : n \in 2..Len(BarDates) }

\* the purchase dates: before the first bar, on a bar, on the day without a
\* bar, after the last bar; without a time; unparseable; none
DateStrings ==
    {IsoDate(d) : d \in 4..9} \cup {PlainDate(6), BadDate, NoDate}

\* a position as get_positions builds it: buy_date is first_buy_date
HeldPositions ==
    { [amount |-> amt, buy_date |-> d, first_buy_date |-> d] :
        amt \in {0, 1000}, d \in DateStrings }

\* a Thursday and a Saturday (day 0 is a Monday)
NowValues == {10, 12}
WeekdayOf(today) == today % 7

\* a position and the history fetch_data_for_position downloads for it
ValuationInit ==
    /\ df \in Frames
    /\ position \in HeldPositions
    /\ utcnow \in NowValues
    /\ analyzer = NoAnalyzer
    /\ weekday = 0
    /\ signal_data = NoSignal
    /\ trades = <<>>
    /\ journal_file = <<>>
    /\ pc = "replay"
    /\ i = 0
    /\ positions = EmptyDict
    /\ active = EmptyDict
    /\ prices = <<>>
    /\ last_rsi = None
    /\ portfolio_data = <<>>
    /\ tax_lots = <<>>
    /\ alerts = <<>>
    /\ dca_trades = <<>>
    /\ dca_data = NotCalled
    /\ portfolio_value = 0
    /\ entry_price = 0
    /\ stop_loss_price = 0
    /\ sizing = NotCalled
    /\ has_critical_news = FALSE
    /\ recent_signals = <<>>
    /\ ticker_obj = NoTicker
    /\ whale_intel = NotCalled
    /\ api_key = ""
    /\ calls_made = 0
    /\ http_requests = 0
    /\ news_result = NotCalled
    /\ owned = <<>>
    /\ benchmarks = NotCalled
    /\ benchmark_analysis = NotCalled
    /\ json_data = NotCalled

\* fetch_data_for_position: "if len(df) < 2: return None", then the analyzer
\* and its signal
FetchDataForPosition(ticker) ==
    /\ Len(df) >= 2
    /\ Evaluate(PositionAnalyzer(ticker, position, df, utcnow), WeekdayOf(utcnow))

ValuationNext ==
    /\ analyzer = NoAnalyzer
    /\ \E ticker \in SignalTickers : FetchDataForPosition(ticker)

ValuationSpec == ValuationInit /\ [][ValuationNext]_vars

\* ------------------------------------------------------------------------
\* TaxLotTracker
\* ------------------------------------------------------------------------
SHORT_TERM_DAYS == 365
LONG_TERM_BUFFER_DAYS == 14
\* "lot['gain_loss_pct'] > 20" of get_tax_alerts
SHORT_TERM_GAIN_PCT == 20

\* item.get('holding_days', 0) or 0
HoldingDaysOrZero(item) ==
    IF item.holding_days = None THEN 0 ELSE item.holding_days

\* a status whose buffer excludes the day LONG_TERM_BUFFER_DAYS before the
\* threshold
TaxStatus_BufferExclusive(holding_days) ==
    IF holding_days >= SHORT_TERM_DAYS THEN "LONG_TERM"
    ELSE IF SHORT_TERM_DAYS - holding_days < LONG_TERM_BUFFER_DAYS
    THEN "ALMOST_LONG"
    ELSE "SHORT_TERM"

\* the if / elif / else of analyze_tax_lots
TaxStatus(holding_days) ==
    IF holding_days >= SHORT_TERM_DAYS THEN "LONG_TERM"
    ELSE IF SHORT_TERM_DAYS - holding_days <= LONG_TERM_BUFFER_DAYS
    THEN "ALMOST_LONG"
    ELSE "SHORT_TERM"

\* the alert text of a lot, without its number of days
TaxLotAlert(status) ==
    CASE status = "LONG_TERM" -> "None"
      [] status = "ALMOST_LONG" -> "Hold more days for long-term rate!"
      [] OTHER -> "days until long-term eligible"

\* the dict analyze_tax_lots appends for an item
TaxLot(item) ==
    LET holding_days == HoldingDaysOrZero(item)
    IN [ticker |-> item.symbol,
        holding_days |-> holding_days,
        status |-> TaxStatus(holding_days),
        days_to_long_term |-> Max(0, SHORT_TERM_DAYS - holding_days),
        alert |-> TaxLotAlert(TaxStatus(holding_days)),
        gain_loss_pct |-> item.gain_loss_pct]

\* TaxLotTracker.analyze_tax_lots
analyze_tax_lots(items) == [k \in 1..Len(items) |-> TaxLot(items[k])]

\* the alerts of a lot, with >= 0 for "in profit"
TaxAlertsOfLot_BreakEven(lot) ==
    IF lot.status = "ALMOST_LONG" /\ lot.gain_loss_pct >= 0
    THEN <<[ticker |-> lot.ticker, type |-> "HOLD_FOR_LONG_TERM",
            priority |-> "high"]>>
    ELSE IF lot.status = "SHORT_TERM" /\ lot.gain_loss_pct > SHORT_TERM_GAIN_PCT
    THEN <<[ticker |-> lot.ticker, type |-> "SHORT_TERM_GAIN_WARNING",
            priority |-> "medium"]>>
    ELSE <<>>

\* the if / elif of get_tax_alerts: what one lot appends to alerts
TaxAlertsOfLot(lot) ==
    IF lot.status = "ALMOST_LONG" /\ lot.gain_loss_pct > 0
    THEN <<[ticker |-> lot.ticker, type |-> "HOLD_FOR_LONG_TERM",
            priority |-> "high"]>>
    ELSE IF lot.status = "SHORT_TERM" /\ lot.gain_loss_pct > SHORT_TERM_GAIN_PCT
    THEN <<[ticker |-> lot.ticker, type |-> "SHORT_TERM_GAIN_WARNING",
            priority |-> "medium"]>>
    ELSE <<>>

\* TaxLotTracker.get_tax_alerts
RECURSIVE get_tax_alerts(_)
get_tax_alerts(lots) ==
    IF lots = <<>> THEN <<>>
    ELSE TaxAlertsOfLot(Head(lots)) \o get_tax_alerts(Tail(lots))

\* the portfolio items: a symbol per position, holding periods around the
\* threshold and around 14 and 30 days before it, gains around 0 and 20
TaxSymbols == <<"AAPL", "BTC">>
TaxHoldingDays == {None, 0, 334, 335, 336, 350, 351, 352, 364, 365, 366}
TaxGainValues == {-1, 0, 1, 20, 21}
PortfolioItems ==
    UNION { { [k \in 1..n |-> [symbol |-> TaxSymbols[k],
                               holding_days |-> f[k][1],
                               gain_loss_pct |-> f[k][2]]] :
                f \in [1..n -> TaxHoldingDays \X TaxGainValues] } :
            n \in 0..Len(TaxSymbols) }

\* generate_json_data has built portfolio_data and reaches "6. Tax Lot Tracking"
TaxInit ==
    /\ portfolio_data \in PortfolioItems
    /\ tax_lots = <<>>
    /\ alerts = <<>>
    /\ pc = "analyze_tax_lots"
    /\ trades = <<>>
    /\ journal_file = <<>>
    /\ i = 0
    /\ positions = EmptyDict
    /\ active = EmptyDict
    /\ analyzer = NoAnalyzer
    /\ weekday = 0
    /\ signal_data = NoSignal
    /\ prices = <<>>
    /\ last_rsi = None
    /\ df = <<>>
    /\ position = NoPosition
    /\ utcnow = 0
    /\ dca_trades = <<>>
    /\ dca_data = NotCalled
    /\ portfolio_value = 0
    /\ entry_price = 0
    /\ stop_loss_price = 0
    /\ sizing = NotCalled
    /\ has_critical_news = FALSE
    /\ recent_signals = <<>>
    /\ ticker_obj = NoTicker
    /\ whale_intel = NotCalled
    /\ api_key = ""
    /\ calls_made = 0
    /\ http_requests = 0
    /\ news_result = NotCalled
    /\ owned = <<>>
    /\ benchmarks = NotCalled
    /\ benchmark_analysis = NotCalled
    /\ json_data = NotCalled

\* tax_lots = tax_tracker.analyze_tax_lots(portfolio_data)
AnalyzeTaxLots ==
    /\ pc = "analyze_tax_lots"
    /\ tax_lots' = analyze_tax_lots(portfolio_data)
    /\ pc' = "get_tax_alerts"
    /\ UNCHANGED <<portfolio_data, alerts, trades, journal_file, i, positions,
                   active, signalVars, rsiVars, valuationVars, analyticsVars, agentVars>>

\* tax_alerts = tax_tracker.get_tax_alerts(tax_lots)
GetTaxAlerts ==
    /\ pc = "get_tax_alerts"
    /\ alerts' = get_tax_alerts(tax_lots)
    /\ pc' = "tax_done"
    /\ UNCHANGED <<portfolio_data, tax_lots, trades, journal_file, i, positions,
                   active, signalVars, rsiVars, valuationVars, analyticsVars, agentVars>>

TaxNext == AnalyzeTaxLots \/ GetTaxAlerts

TaxSpec == TaxInit /\ [][TaxNext]_vars

\* ------------------------------------------------------------------------
\* DCATracker.analyze_dca_performance.  A trade's date is the string the
\* journal holds: an ISO timestamp (add_trade writes these), a plain
\* YYYY-MM-DD date, or text that is no date.  Instants are counted in
\* half days, so that two timestamps of one day can differ.
\* ------------------------------------------------------------------------
MaxDcaTrades == 3

IsoStamp(h) == [kind |-> "iso", half |-> h]
PlainDay(d) == [kind |-> "date", half |-> 2 * d]
BadStamp == [kind |-> "bad", half |-> 0]

\* what an exception leaves in place of a result
Raised(e) == [raised |-> e]
NoAnalysis == [is_none |-> TRUE]

\* buy_trades = [t for t in trades if t['action'] == 'BUY']
BuyTrades(trs) == SelectSeq(trs, LAMBDA t : t.action = "BUY")

\* sorted([...]) of the parsed datetimes
RECURSIVE InsertInstant(_, _)
InsertInstant(s, h) ==
    IF s = <<>> THEN <<h>>
    ELSE IF h < Head(s) THEN <<h>> \o s
    ELSE <<Head(s)>> \o InsertInstant(Tail(s), h)
RECURSIVE SortInstants(_)
SortInstants(s) ==
    IF s = <<>> THEN <<>>
    ELSE InsertInstant(SortInstants(Tail(s)), Head(s).date.half)

\* intervals = [(dates[i+1] - dates[i]).days ...]: timedelta.days is whole days
Intervals(dates) ==
    [k \in 1..(Len(dates) - 1) |-> (dates[k + 1] - dates[k]) \div 2]

\* round(avg_interval, 1), in tenths, ties to the even tenth
RoundTenths(total, n) ==
    LET q == (10 * total) \div n
        r == (10 * total) % n
    IN IF 2 * r < n THEN q
       ELSE IF 2 * r > n THEN q + 1
       ELSE IF q % 2 = 0 THEN q ELSE q + 1

\* the order of the date strings: min(t['date'] ...), max(t['date'] ...)
StringBefore(d, e) ==
    \/ d.half \div 2 < e.half \div 2
    \/ /\ d.half \div 2 = e.half \div 2
       /\ \/ d.kind = "date" /\ e.kind = "iso"
          \/ d.kind = "iso" /\ e.kind = "iso" /\ d.half < e.half
FirstString(buys) ==
    buys[CHOOSE k \in 1..Len(buys) :
            \A j \in 1..Len(buys) : ~StringBefore(buys[j].date, buys[k].date)].date
LastString(buys) ==
    buys[CHOOSE k \in 1..Len(buys) :
            \A j \in 1..Len(buys) : ~StringBefore(buys[k].date, buys[j].date)].date

\* 'Regular' if 0 < avg_interval <= 35 else 'Irregular', avg = total / n
consistency(total, n) ==
    IF 0 < total /\ total <= 35 * n THEN "Regular" ELSE "Irregular"

analyze_dca_performance(ticker, trs) ==
    LET buy_trades == BuyTrades(trs)
        intervals == Intervals(SortInstants(buy_trades))
        total == SumF(intervals, 1, Len(intervals))
    IN IF Len(buy_trades) < 2 THEN NoAnalysis
       ELSE IF \E k \in 1..Len(buy_trades) : buy_trades[k].date.kind = "bad"
            THEN Raised("ValueError")
       ELSE [ticker |-> ticker,
             total_buys |-> Len(buy_trades),
             total_invested |-> 0,
             avg_buy_amount |-> 0,
             avg_interval_days_x10 |-> RoundTenths(total, Len(intervals)),
             first_buy |-> FirstString(buy_trades),
             last_buy |-> LastString(buy_trades),
             consistency |-> consistency(total, Len(intervals))]

\* 35 days are 70 half days
DcaDates ==
    {IsoStamp(0), IsoStamp(1), PlainDay(0), IsoStamp(70), IsoStamp(71),
     IsoStamp(72), BadStamp}
DcaTrades ==
    [action : {"BUY"}, date : DcaDates] \cup [action : {"SELL"}, date : {IsoStamp(1)}]

DcaInit ==
    /\ dca_trades \in UNION {[1..n -> DcaTrades] : n \in 0..MaxDcaTrades}
    /\ dca_data = NotCalled
    /\ trades = <<>>
    /\ journal_file = <<>>
    /\ pc = "replay"
    /\ i = 0
    /\ positions = EmptyDict
    /\ active = EmptyDict
    /\ analyzer = NoAnalyzer
    /\ weekday = 0
    /\ signal_data = NoSignal
    /\ prices = <<>>
    /\ last_rsi = None
    /\ df = <<>>
    /\ position = NoPosition
    /\ utcnow = 0
    /\ portfolio_data = <<>>
    /\ tax_lots = <<>>
    /\ alerts = <<>>
    /\ portfolio_value = 0
    /\ entry_price = 0
    /\ stop_loss_price = 0
    /\ sizing = NotCalled
    /\ has_critical_news = FALSE
    /\ recent_signals = <<>>
    /\ ticker_obj = NoTicker
    /\ whale_intel = NotCalled
    /\ api_key = ""
    /\ calls_made = 0
    /\ http_requests = 0
    /\ news_result = NotCalled
    /\ owned = <<>>
    /\ benchmarks = NotCalled
    /\ benchmark_analysis = NotCalled
    /\ json_data = NotCalled

\* dca_data = dca_tracker.analyze_dca_performance(ticker, trades)
AnalyzeDcaPerformance(ticker) ==
    /\ dca_data' = analyze_dca_performance(ticker, dca_trades)
    /\ UNCHANGED <<dca_trades, journalVars, signalVars, rsiVars, valuationVars,
                   taxVars, sizerVars, aiVars, dashVars, agentVars>>

DcaNext ==
    /\ dca_data = NotCalled
    /\ \E ticker \in JournalTickers : AnalyzeDcaPerformance(ticker)

DcaSpec == DcaInit /\ [][DcaNext]_vars

\* ------------------------------------------------------------------------
\* PositionSizer.calculate_position_size.  Prices are whole dollars, dollar
\* amounts are in cents, percentages in tenths of a percent; a quotient is
\* kept as a fraction in lowest terms until round() is applied to it.
\* ------------------------------------------------------------------------
DEFAULT_PORTFOLIO_SIZE == 1000
\* MAX_POSITION_PCT = 10.0 and RISK_PER_TRADE_PCT = 2.0
MAX_POSITION_PCT == 10
RISK_PER_TRADE_PCT == 2

Abs(x) == IF x < 0 THEN 0 - x ELSE x

\* round(num / den), ties to the even neighbour; den > 0
RoundRatio(num, den) ==
    LET q == num \div den
        r == num % den
    IN IF 2 * r < den THEN q
       ELSE IF 2 * r > den THEN q + 1
       ELSE IF q % 2 = 0 THEN q ELSE q + 1

RECURSIVE GCD(_, _)
GCD(a, b) == IF b = 0 THEN a ELSE GCD(b, a % b)
\* the fraction n / d in lowest terms; n >= 0, d > 0
Ratio(n, d) == [num |-> n \div GCD(n, d), den |-> d \div GCD(n, d)]

\* min of two quotients [num, den] with positive denominators; Python's min
\* returns the first argument unless the second is smaller
MinRatio(x, y) == IF y.num * x.den < x.num * y.den THEN y ELSE x

calculate_position_size_NoCap(pv, entry, stop) ==
    IF entry <= 0 \/ stop <= 0 THEN [error |-> "Invalid prices"]
    ELSE LET risk_per_share == Abs(entry - stop)
             recommended_dollars ==
                 IF risk_per_share > 0
                 THEN Ratio(pv * RISK_PER_TRADE_PCT * entry, 100 * risk_per_share)
                 ELSE Ratio(0, 1)
         IN [entry_price |-> entry,
             stop_loss |-> stop,
             risk_per_share |-> risk_per_share,
             risk_pct_x10 |-> RoundRatio(1000 * risk_per_share, entry),
             max_risk_dollars |-> RoundRatio(pv * RISK_PER_TRADE_PCT, 100),
             recommended_amount |->
                 RoundRatio(recommended_dollars.num, recommended_dollars.den),
             recommended_pct_x10 |->
                 RoundRatio(1000 * recommended_dollars.num,
                            recommended_dollars.den * pv),
             potential_loss |->
                 RoundRatio(recommended_dollars.num * risk_per_share,
                            recommended_dollars.den * entry)]

calculate_position_size(pv, entry, stop) ==
    IF entry <= 0 \/ stop <= 0 THEN [error |-> "Invalid prices"]
    ELSE LET risk_per_share == Abs(entry - stop)
             \* risk_based_size * entry_price
             risk_based_dollars ==
                 IF risk_per_share > 0
                 THEN Ratio(pv * RISK_PER_TRADE_PCT * entry, 100 * risk_per_share)
                 ELSE Ratio(0, 1)
             max_position_dollars ==
                 Ratio(pv * MAX_POSITION_PCT, 100)
             recommended_dollars == MinRatio(risk_based_dollars, max_position_dollars)
         IN [entry_price |-> entry,
             stop_loss |-> stop,
             risk_per_share |-> risk_per_share,
             risk_pct_x10 |-> RoundRatio(1000 * risk_per_share, entry),
             max_risk_dollars |-> RoundRatio(pv * RISK_PER_TRADE_PCT, 100),
             recommended_amount |->
                 RoundRatio(recommended_dollars.num, recommended_dollars.den),
             recommended_pct_x10 |->
                 RoundRatio(1000 * recommended_dollars.num,
                            recommended_dollars.den * pv),
             potential_loss |->
                 RoundRatio(recommended_dollars.num * risk_per_share,
                            recommended_dollars.den * entry)]

\* portfolio_value = total_current if total_current > 0 else
\* DEFAULT_PORTFOLIO_SIZE; total_current is a sum of amounts rounded to cents
PortfolioValues == {100 * DEFAULT_PORTFOLIO_SIZE, 99996, 100007, 250056}
EntryPrices == {-1, 0, 50, 100}
StopPrices == {-1, 0, 50, 90, 99, 100, 150}

SizerInit ==
    /\ portfolio_value \in PortfolioValues
    /\ entry_price \in EntryPrices
    /\ stop_loss_price \in StopPrices
    /\ sizing = NotCalled
    /\ dca_trades = <<>>
    /\ dca_data = NotCalled
    /\ trades = <<>>
    /\ journal_file = <<>>
    /\ pc = "replay"
    /\ i = 0
    /\ positions = EmptyDict
    /\ active = EmptyDict
    /\ analyzer = NoAnalyzer
    /\ weekday = 0
    /\ signal_data = NoSignal
    /\ prices = <<>>
    /\ last_rsi = None
    /\ df = <<>>
    /\ position = NoPosition
    /\ utcnow = 0
    /\ portfolio_data = <<>>
    /\ tax_lots = <<>>
    /\ alerts = <<>>
    /\ has_critical_news = FALSE
    /\ recent_signals = <<>>
    /\ ticker_obj = NoTicker
    /\ whale_intel = NotCalled
    /\ api_key = ""
    /\ calls_made = 0
    /\ http_requests = 0
    /\ news_result = NotCalled
    /\ owned = <<>>
    /\ benchmarks = NotCalled
    /\ benchmark_analysis = NotCalled
    /\ json_data = NotCalled

\* sizing = self.calculate_position_size(price, stop_loss)
CalculatePositionSize ==
    /\ sizing = NotCalled
    /\ sizing' = calculate_position_size(portfolio_value, entry_price,
                                         stop_loss_price)
    /\ UNCHANGED <<portfolio_value, entry_price, stop_loss_price, journalVars,
                   signalVars, rsiVars, valuationVars, taxVars, dcaVars, aiVars, dashVars,
                   agentVars>>

SizerNext == CalculatePositionSize

SizerSpec == SizerInit /\ [][SizerNext]_vars

\* ------------------------------------------------------------------------
\* check_whale_intel on its own: every insider feed of up to MaxInsiderRows
\* rows, for a stock, a stock whose symbol has a dash and a crypto pair
\* ------------------------------------------------------------------------
MaxInsiderRows == 4
WhaleSymbols == {"AAPL", "BRK-B", "BTC-USD"}
InsiderRow == [Text : InsiderTexts, Shares : {100}]
InsiderFeeds ==
    {[kind |-> "none", rows |-> <<>>], [kind |-> "raises", rows |-> <<>>]}
    \cup {[kind |-> "frame", rows |-> r] :
            r \in UNION {[1..n -> InsiderRow] : n \in 0..MaxInsiderRows}}
NewsFeeds ==
    {[raises |-> TRUE, stories |-> <<>>], [raises |-> FALSE, stories |-> <<>>]}
    \cup {[raises |-> FALSE, stories |-> <<t>>] : t \in NewsTitles}
\* a crypto pair has no insider rows
TickerObjects ==
    {obj \in [ticker : WhaleSymbols, news : NewsFeeds,
              insider_transactions : InsiderFeeds] :
        obj.ticker = "BTC-USD" => obj.insider_transactions.rows = <<>>}

WhaleInit ==
    /\ ticker_obj \in TickerObjects
    /\ has_critical_news = FALSE
    /\ whale_intel = NotCalled
    /\ recent_signals = <<>>
    /\ portfolio_value = 0
    /\ entry_price = 0
    /\ stop_loss_price = 0
    /\ sizing = NotCalled
    /\ dca_trades = <<>>
    /\ dca_data = NotCalled
    /\ trades = <<>>
    /\ journal_file = <<>>
    /\ pc = "replay"
    /\ i = 0
    /\ positions = EmptyDict
    /\ active = EmptyDict
    /\ analyzer = NoAnalyzer
    /\ weekday = 0
    /\ signal_data = NoSignal
    /\ prices = <<>>
    /\ last_rsi = None
    /\ df = <<>>
    /\ position = NoPosition
    /\ utcnow = 0
    /\ portfolio_data = <<>>
    /\ tax_lots = <<>>
    /\ alerts = <<>>
    /\ api_key = ""
    /\ calls_made = 0
    /\ http_requests = 0
    /\ news_result = NotCalled
    /\ owned = <<>>
    /\ benchmarks = NotCalled
    /\ benchmark_analysis = NotCalled
    /\ json_data = NotCalled

\* whale_intel = self.check_whale_intel(stock, ticker)
CheckWhaleIntel ==
    /\ whale_intel = NotCalled
    /\ whale_intel' = [intel |-> check_whale_intel(ticker_obj).intel]
    /\ has_critical_news' = (has_critical_news \/ check_whale_intel(ticker_obj).critical)
    /\ UNCHANGED <<ticker_obj, recent_signals, journalVars, signalVars, rsiVars,
                   valuationVars, taxVars, analyticsVars>>

WhaleNext == CheckWhaleIntel

WhaleSpec == WhaleInit /\ [][WhaleNext]_vars

\* ------------------------------------------------------------------------
\* AIResearchAgent: the API budget
\* ------------------------------------------------------------------------
MaxRequests == 23
MaxTickers == 2
max_calls == 20
NoKey == ""
ApiKeys == {NoKey, "KEY"}

\* what one requests.get can do: return a 200 with a feed, return another
\* status, return a rate-limit note, return a body json() rejects, or raise
\* (timeout, connection error)
HttpOutcomes == {"ok", "http_error", "rate_limited", "bad_json", "raises"}

\* self.api_key and self.calls_made < self.max_calls
can_make_call(key, made) == key # NoKey /\ made < max_calls

\* get_news_sentiment on an agent with the given counters; the count moves
\* after requests.get has returned
get_news_sentiment(key, made, reqs, outcome) ==
    IF ~can_make_call(key, made)
    THEN [calls_made |-> made, http_requests |-> reqs, result |-> None]
    ELSE [calls_made |-> IF outcome = "raises" THEN made ELSE made + 1,
          http_requests |-> reqs + 1,
          result |-> IF outcome = "ok" THEN 1 ELSE None]

\* the loop of analyze_portfolio over tickers 1..Len(outcomes), from the k-th
RECURSIVE AnalyzeFrom(_, _, _, _, _, _)
AnalyzeFrom(key, made, reqs, outcomes, k, results) ==
    IF k > Len(outcomes) \/ ~can_make_call(key, made)
    THEN [calls_made |-> made, http_requests |-> reqs, results |-> results]
    ELSE LET r == get_news_sentiment(key, made, reqs, outcomes[k])
         IN AnalyzeFrom(key, r.calls_made, r.http_requests, outcomes, k + 1,
                        IF r.result # None THEN results \cup {k} ELSE results)

\* AIResearchAgent.analyze_portfolio
analyze_portfolio(key, made, reqs, outcomes) ==
    IF key = NoKey
    THEN [calls_made |-> made, http_requests |-> reqs, results |-> {}]
    ELSE AnalyzeFrom(key, made, reqs, outcomes, 1, {})

TickerOutcomes == UNION {[1..n -> HttpOutcomes] : n \in 0..MaxTickers}

\* a new AIResearchAgent
AiInit ==
    /\ api_key \in ApiKeys
    /\ calls_made = 0
    /\ http_requests = 0
    /\ news_result = NotCalled
    /\ journal_file = <<>>
    /\ trades = <<>>
    /\ pc = "idle"
    /\ i = 0
    /\ positions = EmptyDict
    /\ active = EmptyDict
    /\ analyzer = NoAnalyzer
    /\ weekday = 0
    /\ signal_data = NoSignal
    /\ prices = <<>>
    /\ last_rsi = None
    /\ df = <<>>
    /\ position = NoPosition
    /\ utcnow = 0
    /\ portfolio_data = <<>>
    /\ tax_lots = <<>>
    /\ alerts = <<>>
    /\ dca_trades = <<>>
    /\ dca_data = NotCalled
    /\ portfolio_value = 0
    /\ entry_price = 0
    /\ stop_loss_price = 0
    /\ sizing = NotCalled
    /\ has_critical_news = FALSE
    /\ recent_signals = <<>>
    /\ ticker_obj = NoTicker
    /\ whale_intel = NotCalled
    /\ owned = <<>>
    /\ benchmarks = NotCalled
    /\ benchmark_analysis = NotCalled
    /\ json_data = NotCalled

GetNewsSentiment(outcome) ==
    LET r == get_news_sentiment(api_key, calls_made, http_requests, outcome)
    IN /\ calls_made' = r.calls_made
       /\ http_requests' = r.http_requests
       /\ news_result' = [sentiment |-> r.result]
       /\ UNCHANGED <<api_key, journalVars, signalVars, rsiVars, valuationVars,
                      taxVars, dcaVars, sizerVars, dashVars, agentVars>>

AnalyzePortfolio(outcomes) ==
    LET r == analyze_portfolio(api_key, calls_made, http_requests, outcomes)
    IN /\ calls_made' = r.calls_made
       /\ http_requests' = r.http_requests
       /\ news_result' = [results |-> r.results]
       /\ UNCHANGED <<api_key, journalVars, signalVars, rsiVars, valuationVars,
                      taxVars, dcaVars, sizerVars, dashVars, agentVars>>

AiNext ==
    /\ http_requests + MaxTickers <= MaxRequests
    /\ \/ \E outcome \in HttpOutcomes : GetNewsSentiment(outcome)
       \/ \E outcomes \in TickerOutcomes : AnalyzePortfolio(outcomes)

AiSpec == AiInit /\ [][AiNext]_vars

\* ------------------------------------------------------------------------
\* MarketAgent.generate_json_data: the portfolio loop, the sort, the
\* watchlist loop, the benchmarks and the analytics it reads
\* ------------------------------------------------------------------------
MaxPositions == 2
DashTickers == {"AAPL", "MSFT", "BTC"}

\* f"{ticker}-USD" if ticker in CRYPTO_SYMBOLS else ticker
YfTicker(ticker) ==
    IF ticker \in CRYPTO_SYMBOLS
    THEN CHOOSE s \in {"BTC-USD"} : ReplaceUsd(s) = ticker
    ELSE ticker

\* journals that hold one 100-dollar BUY per ticker, on successive days
OpenOrders ==
    {o \in UNION {[1..n -> DashTickers] : n \in 0..MaxPositions} :
        \A k, l \in 1..Len(o) : k # l => o[k] # o[l]}
JournalOf(order) == [k \in 1..Len(order) |-> Trade(order[k], "BUY", 100, k)]

\* what the three months of history make of a position: settling, or past
\* the settling period with a gain on either side of the tiers
PositionAnalyzers(ticker) ==
    {Analyzer(YfTicker(ticker), hd, gain, 0, NaN, "SIDEWAYS", "NEUTRAL", "None",
              [current_price |-> 100, support |-> 95, resistance |-> 103,
               vol_ratio_x10 |-> 10]) :
        hd \in {7}, gain \in {-16, -8, 1, 25, 40}}
    \cup {Analyzer(YfTicker(ticker), 3, 1, 0, NaN, "SIDEWAYS", "NEUTRAL", "None",
                   [current_price |-> 100, support |-> 95, resistance |-> 103,
                    vol_ratio_x10 |-> 10])}

\* a ticker whose newest insider transaction is a purchase
InsiderBuyTicker(symbol) ==
    [ticker |-> symbol, news |-> [raises |-> FALSE, stories |-> <<>>],
     insider_transactions |->
        [kind |-> "frame",
         rows |-> <<[Text |-> "Purchase at price 10.00 per share.",
                     Shares |-> 100]>>]]
PositionTickers(ticker) ==
    IF ticker \in CRYPTO_SYMBOLS THEN {QuietTicker(YfTicker(ticker))}
    ELSE {QuietTicker(ticker), InsiderBuyTicker(ticker)}

\* the fields of the dict fetch_data_for_position returns that
\* generate_json_data and the analytics read
PositionData(a, sig) ==
    [symbol |-> ReplaceUsd(a.ticker), signal |-> sig.signal,
     action |-> sig.action, priority |-> sig.priority,
     risk_score |-> sig.risk_score, gain_loss_pct |-> a.gain_loss_pct,
     amount_invested |-> 100, current_value |-> 100 + a.gain_loss_pct]

\* list.sort is stable, and with reverse=True equal keys keep their order:
\* an item goes behind every item of the same or a higher priority
StaysAhead_OnlyIfHigher(earlier, item) == earlier.priority > item.priority

StaysAhead(earlier, item) == earlier.priority >= item.priority

RECURSIVE InsertByPriority(_, _)
InsertByPriority(sorted, item) ==
    IF sorted = <<>> THEN <<item>>
    ELSE IF StaysAhead(Head(sorted), item)
    THEN <<Head(sorted)>> \o InsertByPriority(Tail(sorted), item)
    ELSE <<item>> \o sorted

\* portfolio_data.sort(key=lambda x: x.get('priority', 0), reverse=True)
RECURSIVE SortByPriority(_)
SortByPriority(items) ==
    IF items = <<>> THEN <<>>
    ELSE InsertByPriority(SortByPriority(SubSeq(items, 1, Len(items) - 1)),
                          items[Len(items)])

\* fetch_benchmark: None, or a dict with the weekly change (hundredths of a
\* percent); generate_json_data stores the dicts that are not None
BenchmarkDicts ==
    UNION {[S -> {-150, 225}] : S \in SUBSET {"SPY", "QQQ"}}

\* benchmarks.get(name, {}).get('change_pct', 0)
ChangePct(bm, name) == IF name \in DOMAIN bm THEN bm[name] ELSE 0

RECURSIVE SumGain(_)
SumGain(items) ==
    IF items = <<>> THEN 0 ELSE Head(items).gain_loss_pct + SumGain(Tail(items))

\* BenchmarkComparison.compare, in hundredths of a percent; every position
\* has 100 dollars invested, so the portfolio return is the mean gain
compare(portfolio, bm) ==
    IF portfolio = <<>>
    THEN [vs_spy |-> 0, vs_qqq |-> 0, alpha |-> 0]
    ELSE LET n == Len(portfolio)
             gain == 100 * SumGain(portfolio)
             spy_return == ChangePct(bm, "SPY")
             qqq_return == ChangePct(bm, "QQQ")
         IN [portfolio_return |-> RoundRatio(gain, n),
             spy_return |-> spy_return,
             qqq_return |-> qqq_return,
             vs_spy |-> RoundRatio(gain - n * spy_return, n),
             vs_qqq |-> RoundRatio(gain - n * qqq_return, n),
             beating_spy |-> gain > n * spy_return,
             beating_qqq |-> gain > n * qqq_return,
             alpha |-> RoundRatio(2 * gain - n * (spy_return + qqq_return), 2 * n)]

\* the keys generate_json_data subscripts in the "Benchmark:" line
BenchmarkKeysRead == {"portfolio_return", "spy_return"}

\* what a watchlist item does to the agent: nothing, a major move (flag and
\* log), or a buy signal (log only)
WatchlistOutcomes == {"quiet", "big_move", "buy_signal"}
WatchlistSignal(outcome) ==
    [ticker |-> "NVDA",
     action |-> IF outcome = "big_move" THEN "ALERT" ELSE "BUY_SIGNAL",
     price |-> 100, gain_loss_pct |-> None, holding_days |-> None,
     notes |-> <<outcome>>]

\* a MarketAgent at the start of generate_json_data
DashboardInit ==
    /\ owned \in OpenOrders
    /\ trades = JournalOf(owned)
    /\ journal_file = trades
    /\ active = get_positions(trades)
    /\ positions = EmptyDict
    /\ pc = "fetch_positions"
    /\ i = 0
    /\ weekday \in Weekdays
    /\ analyzer = NoAnalyzer
    /\ signal_data = NoSignal
    /\ has_critical_news = FALSE
    /\ recent_signals = <<>>
    /\ ticker_obj = NoTicker
    /\ whale_intel = NotCalled
    /\ portfolio_data = <<>>
    /\ benchmarks = NotCalled
    /\ benchmark_analysis = NotCalled
    /\ json_data = NotCalled
    /\ prices = <<>>
    /\ last_rsi = None
    /\ df = <<>>
    /\ position = NoPosition
    /\ utcnow = 0
    /\ tax_lots = <<>>
    /\ alerts = <<>>
    /\ dca_trades = <<>>
    /\ dca_data = NotCalled
    /\ portfolio_value = 0
    /\ entry_price = 0
    /\ stop_loss_price = 0
    /\ sizing = NotCalled
    /\ api_key = ""
    /\ calls_made = 0
    /\ http_requests = 0
    /\ news_result = NotCalled

\* one turn of the portfolio loop whose fetch returns a dict
FetchPosition(a, obj) ==
    /\ fetch_data_for_position(a, weekday, obj)
    /\ portfolio_data' = Append(portfolio_data, PositionData(a, signal_data'))
    /\ owned' = Tail(owned)
    /\ UNCHANGED <<journalVars, rsiVars, valuationVars, tax_lots, alerts,
                   dcaVars, sizerVars, aiVars, benchmarks, benchmark_analysis,
                   json_data>>

\* one turn of the portfolio loop whose history is too short: None
FetchNothing ==
    /\ owned' = Tail(owned)
    /\ UNCHANGED <<journalVars, signalVars, rsiVars, valuationVars, taxVars,
                   dcaVars, sizerVars, aiVars, agentVars, benchmarks,
                   benchmark_analysis, json_data>>

\* after the loop: the sort, then the watchlist loop over one item
SortAndFetchWatchlist(outcome) ==
    /\ portfolio_data' = SortByPriority(portfolio_data)
    /\ has_critical_news' = (has_critical_news \/ outcome = "big_move")
    /\ recent_signals' = IF outcome = "quiet" THEN recent_signals
                         ELSE Append(recent_signals, WatchlistSignal(outcome))
    /\ pc' = "run_analytics"
    /\ UNCHANGED <<trades, journal_file, i, positions, active, signalVars,
                   rsiVars, valuationVars, tax_lots, alerts, dcaVars, sizerVars,
                   aiVars, ticker_obj, whale_intel, owned, benchmarks,
                   benchmark_analysis, json_data>>

\* the benchmarks, the analytics and the return; a key that the dict does not
\* hold raises KeyError out of generate_json_data
RunAnalytics(bm) ==
    /\ benchmarks' = bm
    /\ benchmark_analysis' = compare(portfolio_data, bm)
    /\ json_data' =
          IF BenchmarkKeysRead \subseteq DOMAIN benchmark_analysis'
          THEN [portfolio |-> portfolio_data, benchmarks |-> bm,
                position_count |-> Len(portfolio_data),
                recent_signals |-> recent_signals,
                benchmark_comparison |-> benchmark_analysis']
          ELSE Raised("KeyError")
    /\ pc' = "dashboard_done"
    /\ UNCHANGED <<trades, journal_file, i, positions, active, signalVars,
                   rsiVars, valuationVars, taxVars, dcaVars, sizerVars, aiVars,
                   agentVars, owned>>

DashboardNext ==
    \/ /\ pc = "fetch_positions" /\ owned # <<>>
       /\ \E a \in PositionAnalyzers(Head(owned)),
             obj \in PositionTickers(Head(owned)) : FetchPosition(a, obj)
    \/ /\ pc = "fetch_positions" /\ owned # <<>>
       /\ FetchNothing
    \/ /\ pc = "fetch_positions" /\ owned = <<>>
       /\ \E outcome \in WatchlistOutcomes : SortAndFetchWatchlist(outcome)
    \/ /\ pc = "run_analytics"
       /\ \E bm \in BenchmarkDicts : RunAnalytics(bm)

DashboardSpec == DashboardInit /\ [][DashboardNext]_vars

\* ------------------------------------------------------------------------
\* Claims about TradeJournal (checked under JournalSpec)
\* ------------------------------------------------------------------------
\* the list get_positions iterates over, and the dict before the i-th trade
Sorted == SortByDate(trades)
Before == Replay(SubSeq(Sorted, 1, i - 1))

NonNegativeAmounts == \A k \in 1..Len(trades) : TradeAmount(trades[k]) >= 0

\* the position was brought to zero by a SELL, the last trade of its ticker
ClosedBySell(pos) ==
    /\ pos.amount = 0
    /\ Len(pos.trades) > 0
    /\ pos.trades[Len(pos.trades)].action = "SELL"

Cleared(pos) ==
    /\ pos.amount = 0
    /\ pos.buy_date = None
    /\ pos.first_buy_date = None
    /\ pos.last_buy_date = None
    /\ pos.buy_count = 0

\* PositionAnalyzer._calc_holding_days for a well-formed first_buy_date:
\* (now - first_buy_date).days
calc_holding_days(pos, today) ==
    IF pos.first_buy_date = None THEN None
    ELSE today - pos.first_buy_date

\* C1: while get_positions replays trades of non-negative amounts in date
\* order, the running amount of every ticker is >= 0 after every trade, and so
\* is every amount it returns.
C1_AmountNeverNegative ==
    NonNegativeAmounts =>
        /\ \A t \in DOMAIN positions : positions[t].amount >= 0
        /\ \A t \in DOMAIN active : active[t].amount >= 0

\* C1 witness: the trade just replayed is a SELL larger than the positive
\* amount invested before it, and the amount is now 0.
C1_Witness ==
    /\ pc = "replay"
    /\ i > 0
    /\ LET tr == Sorted[i]
       IN /\ tr.action = "SELL"
          /\ tr.ticker \in DOMAIN Before
          /\ Before[tr.ticker].amount > 0
          /\ TradeAmount(tr) > Before[tr.ticker].amount
          /\ positions[tr.ticker].amount = 0

\* C2: an empty log yields no position for any ticker; a SELL that brings a
\* ticker's amount to zero leaves amount 0 with buy_date, first_buy_date,
\* last_buy_date and buy_count cleared; and a ticker closed that way at the end
\* of the replay is absent from get_positions and reported as not held by
\* get_position and is_owned.
C2_EmptyLogAndClosedPosition ==
    /\ trades = <<>> =>
        /\ DOMAIN get_positions(trades) = {}
        /\ pc = "returned" => DOMAIN active = {}
        /\ \A q \in QueryTickers :
              get_position(trades, q) = NoPosition /\ ~is_owned(trades, q)
    /\ (pc = "replay" /\ i > 0) =>
        LET tr == Sorted[i]
        IN (tr.action = "SELL" /\ positions[tr.ticker].amount = 0)
              => Cleared(positions[tr.ticker])
    /\ pc = "returned" =>
        \A t \in DOMAIN positions :
            ClosedBySell(positions[t]) =>
                /\ Cleared(positions[t])
                /\ t \notin DOMAIN active
                /\ t \notin DOMAIN get_positions(trades)
                /\ \A q \in QueryTickers :
                      CleanTicker(q) = t =>
                          /\ get_position(trades, q) = NoPosition
                          /\ ~is_owned(trades, q)

\* C2 witness: get_positions has returned for a log in which some ticker was
\* bought for a > 0 and then sold for the same a, and nothing else.
C2_Witness ==
    /\ pc = "returned"
    /\ \E t \in DOMAIN positions :
          LET h == positions[t].trades
          IN /\ Len(h) = 2
             /\ h[1].action = "BUY" /\ h[2].action = "SELL"
             /\ TradeAmount(h[1]) > 0
             /\ TradeAmount(h[1]) = TradeAmount(h[2])
             /\ positions[t].amount = 0

\* C3: when the replay reaches a BUY of a ticker whose position was closed by
\* a SELL, the BUY reopens it with first_buy_date = buy_date = the BUY's date
\* and buy_count 1; no trade of the ticker before the close is dated later, and
\* the holding period is counted from the reopening BUY.
C3_ReopenStartsFreshClock ==
    [][(pc = "replay" /\ i < Len(trades)) =>
        LET tr == Sorted[i + 1]
            t == tr.ticker
        IN (tr.action = "BUY" /\ t \in DOMAIN positions
                /\ ClosedBySell(positions[t])) =>
              /\ positions'[t].first_buy_date = tr.date
              /\ positions'[t].buy_date = tr.date
              /\ positions'[t].last_buy_date = tr.date
              /\ positions'[t].buy_count = 1
              /\ \A k \in 1..Len(positions[t].trades) :
                    positions[t].trades[k].date <= positions'[t].first_buy_date
              /\ \A now \in Dates :
                    calc_holding_days(positions'[t], now) = now - tr.date
      ]_vars

\* C3 witness: the trade just replayed is a BUY that reopened a position
\* closed by a SELL after an earlier BUY of a positive amount on an earlier day.
C3_Witness ==
    /\ pc = "replay"
    /\ i >= 3
    /\ LET tr == Sorted[i]
           t == tr.ticker
       IN /\ tr.action = "BUY"
          /\ t \in DOMAIN Before
          /\ ClosedBySell(Before[t])
          /\ \E k \in 1..Len(Before[t].trades) :
                /\ Before[t].trades[k].action = "BUY"
                /\ TradeAmount(Before[t].trades[k]) > 0
                /\ Before[t].trades[k].date < tr.date
          /\ positions[t].first_buy_date = tr.date
          /\ positions[t].buy_count = 1

\* ------------------------------------------------------------------------
\* Claims about generate_signal (checked under SignalSpec)
\* ------------------------------------------------------------------------
Evaluated == analyzer # NoAnalyzer

\* the cases of the claims, in the claims' own terms
Settling ==
    analyzer.holding_days # None /\ analyzer.holding_days <= SETTLING_PERIOD_DAYS
ContinuouslyTraded == analyzer.ticker \in {"BTC", "BTC-USD"}
WeekendSuppressed == weekday \in {5, 6} /\ ~ContinuouslyTraded
Cascade == Evaluated /\ ~Settling /\ ~WeekendSuppressed

StopLossOrProfitActions ==
    {"SELL_ALL", "SELL_MOST", "SELL_HALF", "SELL_QUARTER", "CONSIDER_TRIM", "EVALUATE"}

\* C4: whenever holding_days is known and <= SETTLING_PERIOD_DAYS,
\* generate_signal returns priority 0 and no action, whatever the gain/loss
\* and the indicators: never a stop-loss or profit-tier action.
C4_SettlingMutesSignal ==
    (Evaluated /\ Settling) =>
        /\ signal_data.priority = 0
        /\ signal_data.action = NoAction
        /\ signal_data.action \notin StopLossOrProfitActions

\* C4 witness: a settling position on a trading day whose loss breaches the
\* hard stop, muted to priority 0.
C4_Witness ==
    /\ Evaluated /\ Settling /\ ~WeekendSuppressed
    /\ analyzer.holding_days = SETTLING_PERIOD_DAYS
    /\ analyzer.gain_loss_pct <= STOP_LOSS_HARD
    /\ signal_data.priority = 0
    /\ signal_data.signal = "NEW (Caution)"

\* C5: on a weekend, a ticker that is not continuously traded gets the
\* terminal WEEKEND signal with priority 0 and no action, whatever the
\* gain/loss, settling status and indicators; a crypto ticker never gets it.
C5_WeekendTerminal ==
    Evaluated =>
        /\ WeekendSuppressed =>
              /\ signal_data.signal = "WEEKEND"
              /\ signal_data.priority = 0
              /\ signal_data.action = NoAction
              /\ signal_data.reasoning = <<"Market closed">>
        /\ ContinuouslyTraded => signal_data.signal # "WEEKEND"

\* C5 witness: a stock evaluated on a weekend, not settling, with a loss
\* beyond the hard stop, gets WEEKEND.
C5_Witness ==
    /\ Evaluated /\ WeekendSuppressed /\ ~Settling
    /\ analyzer.gain_loss_pct <= STOP_LOSS_HARD
    /\ signal_data.signal = "WEEKEND"

\* C6: outside the settling and weekend cases, gain_loss_pct <= STOP_LOSS_HARD
\* yields SELL_ALL with priority 100 whatever RSI, trend, volume pattern,
\* divergence and drawdown from peak are.
C6_HardStopSellsAll ==
    (Cascade /\ analyzer.gain_loss_pct <= STOP_LOSS_HARD) =>
        /\ signal_data.action = "SELL_ALL"
        /\ signal_data.priority = 100

\* C6 witness: a loss of exactly STOP_LOSS_HARD with bullish indicators
\* (accumulation, bullish divergence, uptrend) is sold.
C6_Witness ==
    /\ Cascade
    /\ analyzer.gain_loss_pct = STOP_LOSS_HARD
    /\ analyzer.vol_pattern = "ACCUMULATION"
    /\ analyzer.divergence = "BULLISH"
    /\ analyzer.trend = "UP"
    /\ signal_data.action = "SELL_ALL"

\* C7: outside the settling and weekend cases, gain_loss_pct > 0 with
\* drawdown_from_peak <= -TRAILING_STOP_PCT yields SELL_HALF with priority 90,
\* ahead of every profit-tier, overbought, divergence, distribution and hold
\* rule.
C7_TrailingStopPrecedence ==
    (Cascade /\ analyzer.gain_loss_pct > 0
        /\ analyzer.drawdown_from_peak <= -TRAILING_STOP_PCT) =>
        /\ signal_data.action = "SELL_HALF"
        /\ signal_data.priority = 90
        /\ signal_data.signal = "TRAILING STOP"

\* C7 witness: a gain at the extreme-profit tier with an extremely overbought
\* RSI, 12% below the peak, gets the trailing stop.
C7_Witness ==
    /\ Cascade
    /\ analyzer.gain_loss_pct >= PROFIT_TIER_4
    /\ analyzer.rsi > RSI_EXTREME_OVERBOUGHT
    /\ analyzer.drawdown_from_peak = -TRAILING_STOP_PCT
    /\ signal_data.priority = 90

RsiBelowOverbought == analyzer.rsi # NaN /\ analyzer.rsi < RSI_OVERBOUGHT

BreakoutConditions ==
    /\ analyzer.holding_days # None
    /\ analyzer.holding_days >= MIN_HOLD_FOR_ADD
    /\ analyzer.resistance # NaN
    /\ 100 * analyzer.current_price >= 98 * analyzer.resistance
    /\ analyzer.vol_ratio_x10 > VOLUME_SPIKE_RATIO_X10

\* C8 as stated: gain_loss_pct = PROFIT_TIER_1, RSI below overbought and not
\* settling give the tier-1 hold (HOLD, priority 15).
C8_AsStated ==
    (Evaluated /\ ~Settling /\ analyzer.gain_loss_pct = PROFIT_TIER_1
        /\ RsiBelowOverbought) =>
        /\ signal_data.action = "HOLD"
        /\ signal_data.priority = 15

\* C8 amended: gain_loss_pct = PROFIT_TIER_1 with RSI below overbought, not
\* settling and not weekend-suppressed gives the tier-1 hold (HOLD, priority
\* 15) provided no earlier rule matches: the drawdown from peak is above the
\* trailing stop, there is no bearish divergence, the volume pattern is
\* NEUTRAL and the breakout conditions do not hold.
C8_Tier1HoldAtThreshold ==
    (Cascade /\ analyzer.gain_loss_pct = PROFIT_TIER_1 /\ RsiBelowOverbought
        /\ analyzer.drawdown_from_peak > -TRAILING_STOP_PCT
        /\ analyzer.divergence # "BEARISH"
        /\ analyzer.vol_pattern = "NEUTRAL"
        /\ ~BreakoutConditions) =>
        /\ signal_data.action = "HOLD"
        /\ signal_data.priority = 15

\* C8 witness: such a position, held for a week, gets priority 15.
C8_Witness ==
    /\ Cascade /\ analyzer.gain_loss_pct = PROFIT_TIER_1 /\ RsiBelowOverbought
    /\ analyzer.holding_days >= MIN_HOLD_FOR_ADD
    /\ analyzer.drawdown_from_peak > -TRAILING_STOP_PCT
    /\ analyzer.divergence # "BEARISH"
    /\ analyzer.vol_pattern = "NEUTRAL"
    /\ ~BreakoutConditions
    /\ signal_data.action = "HOLD"
    /\ signal_data.priority = 15

\* the order in which the specification lists the rules: the soft stop
\* between tier 3 and tier 2
SpecOrder ==
    <<"hard_stop", "trailing_stop", "extreme_profit", "overbought_profit",
      "profit_tier_3", "soft_stop", "profit_tier_2", "tier_1_overbought",
      "bearish_divergence", "distribution", "warning_loss", "add_on_dip",
      "bullish_divergence", "add_on_breakout", "accumulation", "tier_1_hold",
      "profitable_hold", "loss_hold">>

\* C9: outside the weekend and settling cases, generate_signal returns the
\* action and priority of the rule table read top to bottom in the order the
\* specification lists, and every gain_loss_pct in (-15, -8] yields EVALUATE
\* with priority 75.
C9_SpecOrderEquivalent ==
    Cascade =>
        LET t == Outcome(FirstMatch(SpecOrder, analyzer), analyzer)
        IN /\ signal_data.action = t.action
           /\ signal_data.priority = t.priority
           /\ (analyzer.gain_loss_pct > STOP_LOSS_HARD
                  /\ analyzer.gain_loss_pct <= STOP_LOSS_SOFT) =>
                 (signal_data.action = "EVALUATE" /\ signal_data.priority = 75)

\* C9 witness: a loss of 10% with a distribution pattern and a bearish
\* divergence, the rules the code tests before the soft stop, gets EVALUATE.
C9_Witness ==
    /\ Cascade
    /\ analyzer.gain_loss_pct = ADD_ON_DIP_DRAWDOWN
    /\ analyzer.vol_pattern = "DISTRIBUTION"
    /\ analyzer.divergence = "BEARISH"
    /\ signal_data.action = "EVALUATE"
    /\ signal_data.priority = 75

\* C10: outside the settling and weekend cases, holding_days >= MIN_HOLD_FOR_ADD,
\* gain_loss_pct <= ADD_ON_DIP_DRAWDOWN but above the hard stop,
\* RSI < ADD_ON_DIP_RSI, trend not DOWN and volume pattern not DISTRIBUTION
\* yield BUY_MORE with priority 55.
C10_AddOnDipRecommended ==
    (Cascade
        /\ analyzer.holding_days # None
        /\ analyzer.holding_days >= MIN_HOLD_FOR_ADD
        /\ analyzer.gain_loss_pct <= ADD_ON_DIP_DRAWDOWN
        /\ analyzer.gain_loss_pct > STOP_LOSS_HARD
        /\ analyzer.rsi # NaN /\ analyzer.rsi < ADD_ON_DIP_RSI
        /\ analyzer.trend # "DOWN"
        /\ analyzer.vol_pattern # "DISTRIBUTION") =>
        /\ signal_data.action = "BUY_MORE"
        /\ signal_data.priority = 55

\* ------------------------------------------------------------------------
\* C11: determinism in the indicator inputs
\* ------------------------------------------------------------------------
\* the other asset of the comparison and the day its evaluation reads
OtherTickers == {"AAPL", "MSFT", "BTC"}
OtherWeekdays == {4, 5, 6}
TradedAroundTheClock(t) == t \in {"BTC", "BTC-USD"}
\* the weekend rule applies: Saturday or Sunday, asset not traded then
Suppressed(t, wd) == wd \in {5, 6} /\ ~TradedAroundTheClock(t)
\* the evaluated asset's indicators, carried by another ticker
SameIndicators(t) == [analyzer EXCEPT !.ticker = t]
\* the same rule fired: the same label, color, action, priority and reasoning
\* (and, the indicators being the same, the same risk score)
SameOutcome(r) == r = signal_data

\* C11 (as stated): a second asset with the same gain_loss_pct,
\* drawdown_from_peak, holding_days, RSI, trend, volume pattern, vol_ratio,
\* divergence, price, support and resistance, evaluated on the same day, fires
\* the same rule and gets the same action and priority.
C11_AsStated ==
    Evaluated =>
        \A t \in OtherTickers :
            SameOutcome(generate_signal(SameIndicators(t), weekday))

\* C11 (amended): a second evaluation with the same indicators fires the same
\* rule and gets the same action and priority whenever the weekend rule
\* applies to both evaluations or to neither; the ticker and the day matter
\* through the weekend rule only.
C11_DeterministicUpToWeekendRule ==
    Evaluated =>
        \A t \in OtherTickers, wd \in OtherWeekdays :
            (Suppressed(t, wd) <=> Suppressed(analyzer.ticker, weekday)) =>
                SameOutcome(generate_signal(SameIndicators(t), wd))

\* C11 witness: a hard-stop loss on BTC-USD on a Saturday fires the same rule
\* as the same indicators on AAPL on a Friday, and not the rule of the same
\* indicators on AAPL that Saturday.
C11_Witness ==
    /\ Evaluated /\ ~Settling
    /\ analyzer.ticker = "BTC-USD" /\ weekday = 5
    /\ analyzer.gain_loss_pct <= STOP_LOSS_HARD
    /\ signal_data.action = "SELL_ALL"
    /\ SameOutcome(generate_signal(SameIndicators("AAPL"), 4))
    /\ ~SameOutcome(generate_signal(SameIndicators("AAPL"), 5))

\* ------------------------------------------------------------------------
\* C12: the risk score (checked under RiskSpec)
\* ------------------------------------------------------------------------
\* the largest adjustment of each of the six terms
AllAdjustmentsAtMaximum ==
    /\ analyzer.gain_loss_pct < -10
    /\ analyzer.rsi # NaN /\ analyzer.rsi > 80
    /\ analyzer.trend = "DOWN"
    /\ analyzer.vol_pattern = "DISTRIBUTION"
    /\ analyzer.drawdown_from_peak < -15
    /\ analyzer.divergence = "BEARISH"

\* C12: the risk_score returned with every recommendation lies in [0, 100],
\* whatever the gain, the RSI (undefined included), the trend, the volume
\* pattern, the drawdown and the divergence.
C12_RiskScoreClamped ==
    Evaluated => (signal_data.risk_score >= 0 /\ signal_data.risk_score <= 100)

\* C12 witness: every adjustment at its maximum (50+15+15+10+12+15+10 = 127)
\* is returned as 100; an undefined RSI is scored as well.
C12_Witness ==
    /\ Evaluated
    /\ AllAdjustmentsAtMaximum
    /\ 50 + 15 + 15 + 10 + 12 + 15 + 10 > 100
    /\ signal_data.risk_score = 100

\* ------------------------------------------------------------------------
\* C13: RSI of a window without a loss (checked under RsiSpec)
\* ------------------------------------------------------------------------
RsiComputed == last_rsi # None
\* the window of the last bar is complete and no close in it is below the
\* close before it: the average loss over the window is exactly 0
WindowStart == Len(prices) - RSI_PERIOD + 1
AverageLossZero ==
    /\ Len(prices) >= RSI_PERIOD
    /\ \A k \in WindowStart..Len(prices) : k > 1 => prices[k] >= prices[k - 1]
\* no close in the window differs from the close before it
FlatWindow ==
    \A k \in WindowStart..Len(prices) : k > 1 => prices[k] = prices[k - 1]

\* C13: whenever the average loss over the RSI window is exactly 0, the RSI
\* of the last bar is exactly 100, never NaN, a flat window included.
C13_ZeroLossGivesHundred ==
    (RsiComputed /\ AverageLossZero) => last_rsi = 100

\* ------------------------------------------------------------------------
\* Claims about the valuation (checked under ValuationSpec)
\* ------------------------------------------------------------------------
OpeningDate == position.first_buy_date
OpeningDateUsable == OpeningDate.kind \in {"iso", "date"}
LastClose == df[Len(df)].close
\* the bars dated on or after a day
BarsSince(day) == {k \in 1..Len(df) : df[k].date >= day}

\* a recommendation was returned, with a priority and a risk score
RecommendationReturned ==
    /\ signal_data # NoSignal
    /\ signal_data.priority \in 0..100
    /\ signal_data.risk_score \in 0..100
    /\ signal_data.signal # ""

\* the rules whose guard reads the RSI, the divergence or the resistance
IndicatorRuleLabels ==
    {"SELL RSI", "OVERBOUGHT", "DIVERGENCE", "ADD ON DIP", "BULLISH DIV", "BREAKOUT"}
\* the reasoning lines that an indicator adds to another rule
IndicatorReasons ==
    {"RSI overbought - good time to trim", "RSI oversold - potential bounce",
     "Downtrend - consider cutting losses", "Near support", "Trend supportive"}

\* base 50 with the adjustments for gain/loss, volume pattern and drawdown
\* only, clamped to [0, 100]
ScoreWithoutIndicators ==
    LET g == analyzer.gain_loss_pct
        d == analyzer.drawdown_from_peak
        v == analyzer.vol_pattern
        raw == 50
               + (IF g < -10 THEN 15 ELSE IF g < -5 THEN 8
                  ELSE IF g > 20 THEN -10 ELSE IF g > 10 THEN -5 ELSE 0)
               + (IF v = "DISTRIBUTION" THEN 12
                  ELSE IF v = "ACCUMULATION" THEN -8 ELSE 0)
               + (IF d < -15 THEN 15 ELSE IF d < -10 THEN 8 ELSE 0)
    IN IF raw > 100 THEN 100 ELSE IF raw < 0 THEN 0 ELSE raw

\* C14: with a history shorter than the windows of the RSI, the divergence,
\* the support/resistance and the moving averages, these indicators are
\* undefined, a recommendation with a priority and a risk score is returned
\* all the same, no rule that reads them fires, no reasoning line comes from
\* them, and the risk score carries no adjustment for them.
C14_ShortSeriesNeutral ==
    (Evaluated /\ Len(df) < RSI_PERIOD) =>
        /\ analyzer.rsi = NaN
        /\ analyzer.divergence = "None"
        /\ analyzer.support = NaN /\ analyzer.resistance = NaN
        /\ analyzer.trend = "SIDEWAYS"
        /\ RecommendationReturned
        /\ signal_data.signal \notin IndicatorRuleLabels
        /\ \A k \in 1..Len(signal_data.reasoning) :
              signal_data.reasoning[k] \notin IndicatorReasons
        /\ signal_data.risk_score = ScoreWithoutIndicators

\* C14 witness: a three-bar history and a gain of 25%, where an RSI above 80
\* would sell on the RSI: the plain profit rule fires, with one reasoning line.
C14_Witness ==
    /\ Evaluated /\ Len(df) = 3
    /\ analyzer.gain_loss_pct = PROFIT_TIER_2
    /\ analyzer.rsi = NaN
    /\ signal_data.signal = "PROFIT"
    /\ signal_data.reasoning = <<"Solid gain">>
    /\ signal_data.risk_score = ScoreWithoutIndicators

\* C15: amount 0 gives gain_loss_pct 0, a purchase price <= 0 gives
\* current_value = amount, a peak of 0 gives drawdown 0, and in every case a
\* recommendation is returned.
C15_RatiosGuarded ==
    Evaluated =>
        /\ (position.amount = 0) => analyzer.gain_loss_pct = 0
        /\ (analyzer.price_at_purchase <= 0) =>
              analyzer.current_value = position.amount
        /\ (analyzer.peak_since_buy = 0) => analyzer.drawdown_from_peak = 0
        /\ RecommendationReturned

\* C15 witness: 1000 dollars bought on a bar that closed at 0, the asset now
\* priced above 0: valued at 1000, gain 0, and a recommendation is returned.
C15_Witness ==
    /\ Evaluated
    /\ position.amount = 1000
    /\ analyzer.price_at_purchase = 0
    /\ analyzer.current_price > 0
    /\ analyzer.current_value = 1000
    /\ analyzer.gain_loss_pct = 0
    /\ RecommendationReturned

\* C16: price_at_purchase is the close of the chronologically first bar dated
\* on or after the opening date; the earliest close when the opening date
\* precedes every bar; the last close when there is no opening date or it
\* does not parse.
C16_PriceAtPurchase ==
    Evaluated =>
        /\ (OpeningDateUsable /\ BarsSince(OpeningDate.day) # {}) =>
              \E k \in BarsSince(OpeningDate.day) :
                  /\ \A j \in BarsSince(OpeningDate.day) : df[k].date <= df[j].date
                  /\ analyzer.price_at_purchase = df[k].close
        /\ (OpeningDateUsable /\ \A k \in 1..Len(df) : OpeningDate.day < df[k].date) =>
              \E k \in 1..Len(df) :
                  /\ \A j \in 1..Len(df) : df[k].date <= df[j].date
                  /\ analyzer.price_at_purchase = df[k].close
        /\ (~OpeningDateUsable) =>
              (analyzer.price_at_purchase = LastClose
                  /\ analyzer.current_price = LastClose)

\* C16 witness: three bars with three different closes, the position opened
\* on the day of the second: its close is the purchase price.
C16_Witness ==
    /\ Evaluated /\ Len(df) = 3
    /\ OpeningDateUsable /\ OpeningDate.day = df[2].date
    /\ df[1].close # df[2].close /\ df[3].close # df[2].close
    /\ analyzer.price_at_purchase = df[2].close

\* C17: when every bar has high >= close, peak_since_buy is the highest high
\* of the bars dated on or after the opening date, or the current price when
\* there is no such bar or no usable date; it is never below the current
\* price, and drawdown_from_peak is <= 0.
C17_DrawdownNeverPositive ==
    (Evaluated /\ \A k \in 1..Len(df) : df[k].high >= df[k].close) =>
        /\ analyzer.drawdown_from_peak <= 0
        /\ analyzer.peak_since_buy >= analyzer.current_price
        /\ (OpeningDateUsable /\ BarsSince(OpeningDate.day) # {}) =>
              /\ \A k \in BarsSince(OpeningDate.day) :
                    df[k].high <= analyzer.peak_since_buy
              /\ \E k \in BarsSince(OpeningDate.day) :
                    df[k].high = analyzer.peak_since_buy
        /\ (~OpeningDateUsable \/ BarsSince(OpeningDate.day) = {}) =>
              analyzer.peak_since_buy = analyzer.current_price

\* C17 witness: a high before the purchase that is above the peak since the
\* purchase, and the price now below that peak.
C17_Witness ==
    /\ Evaluated
    /\ OpeningDateUsable
    /\ \E k \in 1..Len(df) :
          df[k].date < OpeningDate.day /\ df[k].high > analyzer.peak_since_buy
    /\ analyzer.peak_since_buy > analyzer.current_price
    /\ analyzer.drawdown_from_peak < 0

\* ------------------------------------------------------------------------
\* C18: a position without a usable purchase date (checked under SignalSpec)
\* ------------------------------------------------------------------------
SettlingLabels == {"NEW", "NEW (Wait)", "NEW (Caution)"}
AddOnLabels == {"ADD ON DIP", "BREAKOUT"}
\* the holding periods that are known and past the settling period
KnownNonSettling ==
    {hd \in HoldingDayValues : hd # None /\ hd > SETTLING_PERIOD_DAYS}
\* the same asset, the same day, with a known holding period
WithHoldingDays(hd) ==
    generate_signal([analyzer EXCEPT !.holding_days = hd], weekday)

\* C18: a first_buy_date that is missing or does not resolve gives
\* holding_days None; then neither the settling branch nor an add-on rule
\* fires, and the recommendation is the one of the same position with any
\* known, non-settling holding period, unless that one comes from an add-on
\* rule.
C18_UnknownHoldingPeriod ==
    /\ \A d \in {NoDate, BadDate, PlainDate(6)}, today \in NowValues :
          _calc_holding_days([first_buy_date |-> d], today) = None
    /\ (Evaluated /\ analyzer.holding_days = None) =>
          /\ signal_data.signal \notin SettlingLabels \cup AddOnLabels
          /\ \A hd \in KnownNonSettling :
                \/ SameOutcome(WithHoldingDays(hd))
                \/ WithHoldingDays(hd).signal \in AddOnLabels

\* C18 witness: a position of unknown age whose indicators meet the breakout
\* conditions: held MIN_HOLD_FOR_ADD days it would get BREAKOUT, held 4 days
\* it gets what it gets now, a hold.
C18_Witness ==
    /\ Evaluated /\ analyzer.holding_days = None /\ ~WeekendSuppressed
    /\ WithHoldingDays(MIN_HOLD_FOR_ADD).signal = "BREAKOUT"
    /\ signal_data.action = "HOLD"
    /\ SameOutcome(WithHoldingDays(4))

\* ------------------------------------------------------------------------
\* Claims about TaxLotTracker (checked under TaxSpec)
\* ------------------------------------------------------------------------
TaxLotsAnalyzed == pc \in {"get_tax_alerts", "tax_done"}
TaxAlertsComputed == pc = "tax_done"
\* the holding period of the k-th position, 0 when it is unknown
HeldDays(k) ==
    IF portfolio_data[k].holding_days = None THEN 0
    ELSE portfolio_data[k].holding_days
TaxStatuses == {"LONG_TERM", "ALMOST_LONG", "SHORT_TERM"}

\* C19 (as stated): every position gets exactly one status: LONG_TERM iff
\* holding_days >= 365, ALMOST_LONG iff not long-term and
\* 365 - holding_days <= 30, SHORT_TERM otherwise.
C19_AsStated ==
    TaxLotsAnalyzed =>
        /\ Len(tax_lots) = Len(portfolio_data)
        /\ \A k \in 1..Len(tax_lots) :
              /\ tax_lots[k].status \in TaxStatuses
              /\ tax_lots[k].status = "LONG_TERM" <=> HeldDays(k) >= 365
              /\ tax_lots[k].status = "ALMOST_LONG" <=>
                    (HeldDays(k) < 365 /\ 365 - HeldDays(k) <= 30)

\* C19 (amended): the same classification with the buffer of the code, 14
\* days: ALMOST_LONG iff not long-term and 365 - holding_days <= 14.
C19_BufferOfFourteenDays ==
    TaxLotsAnalyzed =>
        /\ Len(tax_lots) = Len(portfolio_data)
        /\ \A k \in 1..Len(tax_lots) :
              /\ tax_lots[k].ticker = portfolio_data[k].symbol
              /\ tax_lots[k].status \in TaxStatuses
              /\ tax_lots[k].status = "LONG_TERM" <=> HeldDays(k) >= 365
              /\ tax_lots[k].status = "ALMOST_LONG" <=>
                    (HeldDays(k) < 365 /\ 365 - HeldDays(k) <= 14)

\* C19 witness: a position held 351 days is ALMOST_LONG, beside one held 335
\* days that is SHORT_TERM.
C19_Witness ==
    /\ TaxLotsAnalyzed
    /\ Len(tax_lots) = 2
    /\ HeldDays(1) = 351 /\ tax_lots[1].status = "ALMOST_LONG"
    /\ HeldDays(2) = 335 /\ tax_lots[2].status = "SHORT_TERM"

\* the alerts raised for the k-th lot
AlertsOf(k) == {j \in 1..Len(alerts) : alerts[j].ticker = tax_lots[k].ticker}

\* C20: every lot has at most one alert, every alert belongs to a lot, and a
\* lot has one only if it is ALMOST_LONG with gain_loss_pct > 0 or SHORT_TERM
\* with gain_loss_pct > 20: never a LONG_TERM lot, never an unprofitable one.
C20_TaxAlertsOnlyWhenWarranted ==
    TaxAlertsComputed =>
        /\ \A j \in 1..Len(alerts) : \E k \in 1..Len(tax_lots) : j \in AlertsOf(k)
        /\ \A k \in 1..Len(tax_lots) :
              /\ Cardinality(AlertsOf(k)) <= 1
              /\ AlertsOf(k) # {} =>
                    \/ tax_lots[k].status = "ALMOST_LONG" /\ tax_lots[k].gain_loss_pct > 0
                    \/ tax_lots[k].status = "SHORT_TERM" /\ tax_lots[k].gain_loss_pct > 20
              /\ tax_lots[k].status = "LONG_TERM" => AlertsOf(k) = {}
              /\ tax_lots[k].gain_loss_pct <= 0 => AlertsOf(k) = {}

\* C20 witness: an ALMOST_LONG lot in profit gets its one alert, beside a
\* SHORT_TERM lot with a gain of exactly 20% that gets none.
C20_Witness ==
    /\ TaxAlertsComputed
    /\ Len(tax_lots) = 2 /\ Len(alerts) = 1
    /\ tax_lots[1].status = "ALMOST_LONG" /\ tax_lots[1].gain_loss_pct = 1
    /\ alerts[1].ticker = tax_lots[1].ticker
    /\ alerts[1].type = "HOLD_FOR_LONG_TERM"
    /\ tax_lots[2].status = "SHORT_TERM" /\ tax_lots[2].gain_loss_pct = 20

\* ------------------------------------------------------------------------
\* C21: the cadence analyze_dca_performance reports
\* ------------------------------------------------------------------------
DcaAnalyzed == dca_data # NotCalled
Buys == {k \in 1..Len(dca_trades) : dca_trades[k].action = "BUY"}
AllBuyDatesParse == \A k \in Buys : dca_trades[k].date.kind \in {"iso", "date"}
BuyInstants == SortInstants(BuyTrades(dca_trades))
\* the sum of the whole-day gaps between successive BUYs; their number is
\* one less than the number of BUYs
GapDays == SumF(Intervals(BuyInstants), 1, Len(BuyInstants) - 1)
GapCount == Cardinality(Buys) - 1

\* C21: with at least two BUY trades, analyze_dca_performance reports
\* consistency Regular whenever the average whole-day interval between
\* successive BUYs is <= 35, an average of 0 days included, and Irregular
\* otherwise; with fewer than two BUYs it returns no analysis.
C21_RegularUpToThirtyFiveDays ==
    DcaAnalyzed /\ AllBuyDatesParse =>
        IF Cardinality(Buys) < 2 THEN dca_data = NoAnalysis
        ELSE /\ dca_data # NoAnalysis
             /\ dca_data.consistency =
                    IF GapDays <= 35 * GapCount THEN "Regular" ELSE "Irregular"

\* ------------------------------------------------------------------------
\* C22: the size calculate_position_size recommends and the cap
\* ------------------------------------------------------------------------
SizingReturned == sizing # NotCalled
ValidPrices == entry_price > 0 /\ stop_loss_price > 0
RiskPerUnit ==
    IF entry_price >= stop_loss_price THEN entry_price - stop_loss_price
    ELSE stop_loss_price - entry_price
\* risk-based size = portfolio_value * risk % * entry / risk per unit, and
\* cap = portfolio_value * max-position %: the first is below the second
\* exactly when risk % * entry < max-position % * risk per unit
RiskBasedBelowCap ==
    RiskPerUnit = 0 \/ RISK_PER_TRADE_PCT * entry_price < MAX_POSITION_PCT * RiskPerUnit
\* min(risk-based size, cap) in cents, as numerator and denominator
UncappedNum ==
    IF RiskPerUnit = 0 THEN 0
    ELSE IF RiskBasedBelowCap THEN portfolio_value * RISK_PER_TRADE_PCT * entry_price
    ELSE portfolio_value * MAX_POSITION_PCT
UncappedDen ==
    IF RiskPerUnit = 0 THEN 1
    ELSE IF RiskBasedBelowCap THEN 100 * RiskPerUnit
    ELSE 100
Distance(x, y) == IF x >= y THEN x - y ELSE y - x

\* C22 as stated: for entry > 0 and stop > 0 the recommended amount equals
\* min(risk-based size, portfolio_value x max_position %), read to the cent,
\* and is <= the cap; a non-positive entry or stop returns an error value;
\* entry = stop gives 0.
C22_AsStated ==
    SizingReturned =>
        IF ValidPrices
        THEN /\ 2 * Distance(sizing.recommended_amount * UncappedDen, UncappedNum)
                    <= UncappedDen
             /\ sizing.recommended_amount * 100 <= portfolio_value * MAX_POSITION_PCT
             /\ entry_price = stop_loss_price => sizing.recommended_amount = 0
        ELSE sizing = [error |-> "Invalid prices"]

\* C22 amended: for entry > 0 and stop > 0 the recommended amount is
\* min(risk-based size, portfolio_value x max_position %) rounded to the
\* nearest cent, so it exceeds the cap by half a cent at most; a non-positive
\* entry or stop returns an error value; entry = stop gives 0.
C22_CappedUpToRounding ==
    SizingReturned =>
        IF ValidPrices
        THEN /\ 2 * Distance(sizing.recommended_amount * UncappedDen, UncappedNum)
                    <= UncappedDen
             /\ 2 * (sizing.recommended_amount * 100
                        - portfolio_value * MAX_POSITION_PCT) <= 100
             /\ entry_price = stop_loss_price => sizing.recommended_amount = 0
        ELSE sizing = [error |-> "Invalid prices"]

\* the cap applies, and rounding to cents lifts the amount above it
C22_Witness ==
    /\ SizingReturned /\ ValidPrices /\ ~RiskBasedBelowCap
    /\ portfolio_value = 99996
    /\ sizing.recommended_amount = 10000

\* ------------------------------------------------------------------------
\* C23: an insider purchase and the critical flag
\* ------------------------------------------------------------------------
WhaleIntelChecked == whale_intel # NotCalled
InsiderFeed == ticker_obj.insider_transactions
PurchaseRecord(row) == row.Text = "Purchase at price 10.00 per share."
FeedHasPurchase ==
    /\ InsiderFeed.kind = "frame"
    /\ \E k \in 1..Len(InsiderFeed.rows) : PurchaseRecord(InsiderFeed.rows[k])
\* a purchase among the three rows of highest index
RecentPurchase ==
    /\ InsiderFeed.kind = "frame"
    /\ \E k \in 1..Len(InsiderFeed.rows) :
            /\ k > Len(InsiderFeed.rows) - 3
            /\ PurchaseRecord(InsiderFeed.rows[k])
SymbolWithoutDash == ticker_obj.ticker \notin {"BRK-B", "BTC-USD"}

\* C23 as stated: whenever the insider feed of the asset contains a purchase
\* record, check_whale_intel forces has_critical_news, for every asset and
\* wherever the record stands in the feed.
C23_AsStated ==
    WhaleIntelChecked /\ FeedHasPurchase => has_critical_news

\* C23 amended: whenever the asset's symbol has no dash and one of the three
\* rows of highest index of its insider feed is a purchase record,
\* check_whale_intel forces has_critical_news.
C23_RecentPurchaseForcesFlag ==
    WhaleIntelChecked /\ SymbolWithoutDash /\ RecentPurchase => has_critical_news

\* a feed of four rows whose only purchase is the row of highest index
C23_Witness ==
    /\ WhaleIntelChecked /\ SymbolWithoutDash
    /\ Len(InsiderFeed.rows) = 4
    /\ PurchaseRecord(InsiderFeed.rows[4])
    /\ \A k \in 1..3 : ~PurchaseRecord(InsiderFeed.rows[k])
    /\ has_critical_news
    /\ <<"Insider Buy", 100>> \in whale_intel.intel

\* ------------------------------------------------------------------------
\* C24: the trade log is append-only
\* ------------------------------------------------------------------------
AddTradeStep ==
    \E ticker \in AddTickers, action \in ActionInputs,
       amount_invested \in Amounts, date \in Dates :
        add_trade(ticker, action, amount_invested, date)
\* a step of get_positions, which get_position and is_owned run through
GetPositionsStep == GetPositionsCall \/ ReplayTrade \/ GetPositionsReturn
ExtendsByOne(before, after) ==
    /\ Len(after) = Len(before) + 1
    /\ \A k \in 1..Len(before) : after[k] = before[k]

Returned == pc = "returned"
\* the trades of one ticker, in date order
TickerLog(t) == SelectSeq(SortByDate(trades), LAMBDA tr : tr.ticker = t)
\* the j-th trade of the ticker is a SELL that leaves nothing invested
ClosesAt(t, j) ==
    /\ TickerLog(t)[j].action = "SELL"
    /\ Replay(SubSeq(TickerLog(t), 1, j))[t].amount = 0
LastClosing(t) == MaxOf({0} \cup {j \in 1..Len(TickerLog(t)) : ClosesAt(t, j)})
BuysSinceLastClose(t) ==
    Cardinality({j \in (LastClosing(t) + 1)..Len(TickerLog(t)) :
                    TickerLog(t)[j].action = "BUY"})
WellFormedPosition(t) ==
    /\ active[t].amount > 0
    /\ active[t].first_buy_date # None
    /\ active[t].last_buy_date # None
    /\ active[t].first_buy_date <= active[t].last_buy_date
    /\ active[t].buy_count >= 1
    /\ active[t].buy_count = BuysSinceLastClose(t)

\* C26 as stated: after replaying any sequence of trades, every position
\* get_positions returns has amount > 0, non-null first_buy_date and
\* last_buy_date with first_buy_date <= last_buy_date, and buy_count >= 1 equal
\* to the number of BUY trades of the ticker since its last close.
C26_AsStated ==
    Returned => \A t \in DOMAIN active : WellFormedPosition(t)

\* C26 amended: the same, after replaying any sequence of trades whose
\* amounts are non-negative.
C26_PositionsOfNonNegativeTrades ==
    Returned /\ (\A k \in 1..Len(trades) : trades[k].amount_invested >= 0)
        => \A t \in DOMAIN active : WellFormedPosition(t)

\* a position bought, closed and bought again: one BUY counts out of two
C26_Witness ==
    /\ Returned
    /\ \A k \in 1..Len(trades) : trades[k].amount_invested >= 0
    /\ "AAPL" \in DOMAIN active
    /\ TickerLog("AAPL")[1].action = "BUY"
    /\ TickerLog("AAPL")[1].amount_invested > 0
    /\ LastClosing("AAPL") = 2
    /\ active["AAPL"].buy_count = 1
    /\ active["AAPL"].first_buy_date = 2

\* ------------------------------------------------------------------------
\* C27: the shape of every recommendation (checked under SignalSpec)
\* ------------------------------------------------------------------------
PriorityValues ==
    {0, 10, 15, 20, 30, 35, 40, 45, 50, 55, 60, 70, 75, 80, 85, 90, 100}
EnumeratedActions ==
    {"SELL_ALL", "SELL_MOST", "SELL_HALF", "SELL_QUARTER", "CONSIDER_TRIM",
     "BUY_MORE", "HOLD", "HOLD_STRONG", "WATCH_CLOSELY", "MONITOR", "EVALUATE"}

\* C27: every result of generate_signal has a priority among the seventeen
\* listed values, an action that is null or one of the enumerated actions, and
\* one to three reasoning strings; the action is null exactly when the
\* priority is 0, and that is exactly the weekend and the settling cases.
C27_RecommendationShape ==
    Evaluated =>
        /\ signal_data.priority \in PriorityValues
        /\ signal_data.action \in EnumeratedActions \cup {NoAction}
        /\ Len(signal_data.reasoning) \in 1..3
        /\ \A k \in 1..Len(signal_data.reasoning) :
              signal_data.reasoning[k] \in STRING
        /\ (signal_data.action = NoAction) <=> (signal_data.priority = 0)
        /\ (signal_data.priority = 0) <=> (WeekendSuppressed \/ Settling)

\* C27 witness: outside the weekend and settling cases, a soft stop with its
\* optional second reason
C27_Witness ==
    /\ Evaluated /\ ~WeekendSuppressed /\ ~Settling
    /\ Len(signal_data.reasoning) = 2
    /\ signal_data.priority = 75
    /\ signal_data.action = "EVALUATE"

\* ------------------------------------------------------------------------
\* C28: the API budget (checked under AiSpec)
\* ------------------------------------------------------------------------
\* C28: over any sequence of get_news_sentiment / analyze_portfolio calls on
\* one AIResearchAgent, the number of HTTP requests issued never exceeds
\* max_calls, including when requests fail with a timeout or another
\* exception.
C28_RequestsWithinBudget == http_requests <= max_calls

\* ------------------------------------------------------------------------
\* Claims about generate_json_data (checked under DashboardSpec)
\* ------------------------------------------------------------------------
DashboardReturned == "portfolio" \in DOMAIN json_data
\* the place of a position in the portfolio loop: the journal holds one BUY
\* per ticker and the loop follows the journal
EvaluationRank(symbol) ==
    CHOOSE k \in 1..Len(trades) : trades[k].ticker = symbol

\* C25: the portfolio list generate_json_data produces is in non-increasing
\* order of priority, and recommendations of equal priority keep the order in
\* which their positions were evaluated.
C25_RankedByPriority ==
    DashboardReturned =>
        \A k, l \in 1..Len(json_data.portfolio) :
            k < l =>
                /\ json_data.portfolio[k].priority >= json_data.portfolio[l].priority
                /\ json_data.portfolio[k].priority = json_data.portfolio[l].priority
                    => EvaluationRank(json_data.portfolio[k].symbol)
                         < EvaluationRank(json_data.portfolio[l].symbol)

\* C25 witness: two positions with the same non-zero priority, returned in
\* the order of the loop
C25_Witness ==
    /\ DashboardReturned
    /\ Len(json_data.portfolio) = 2
    /\ json_data.portfolio[1].priority = 75
    /\ json_data.portfolio[2].priority = 75
    /\ json_data.portfolio[1].symbol = trades[1].ticker

\* a turn of the portfolio loop that evaluated a position, and its log entry
PositionEvaluated ==
    /\ pc = "fetch_positions"
    /\ Len(portfolio_data') = Len(portfolio_data) + 1
LoggedOne ==
    /\ Len(recent_signals') = Len(recent_signals) + 1
    /\ SubSeq(recent_signals', 1, Len(recent_signals)) = recent_signals
    /\ recent_signals'[Len(recent_signals')].ticker = ReplaceUsd(analyzer'.ticker)
\* C29: within one run has_critical_news is never reset; a turn of the
\* portfolio loop that evaluates a position logs one signal exactly when the
\* recommendation has priority >= 70, and then the flag is true; a
\* recommendation of priority 0 (settling, weekend) logs nothing.
C29_CriticalLatchAndLog ==
    [][/\ has_critical_news => has_critical_news'
       /\ PositionEvaluated =>
            /\ IF signal_data'.priority >= 70 THEN LoggedOne
               ELSE recent_signals' = recent_signals
            /\ signal_data'.priority >= 70 => has_critical_news'
            /\ signal_data'.priority = 0 => recent_signals' = recent_signals]_vars

\* C29 witness: the flag was set by an earlier position, and a settling
\* position has just been evaluated without a log entry
C29_Witness ==
    /\ pc = "fetch_positions"
    /\ Len(portfolio_data) = 2
    /\ portfolio_data[1].priority >= 70
    /\ portfolio_data[2].priority = 0
    /\ has_critical_news
    /\ Len(recent_signals) = 1

\* C30: generate_json_data completes and returns a dashboard record for
\* every journal, also when no position is open: the portfolio_return and
\* spy_return fields of BenchmarkComparison.compare are present whether or
\* not the portfolio is empty.
C30_DashboardReturned ==
    pc = "dashboard_done" =>
        /\ DashboardReturned
        /\ BenchmarkKeysRead \subseteq DOMAIN benchmark_analysis

====
